---- MODULE Spec2Model ----
(***************************************************************************)
(* Orkflow: the workflow executor (internal/engine), the agent runner and  *)
(* its output history (internal/agent) and the shared key-value store      *)
(* (internal/memory), modelled as one state machine.                       *)
(*                                                                         *)
(* Text is modelled by TLA+ strings, so prompts, contexts and errors are   *)
(* built with the format strings of the source.  Goroutines are the        *)
(* processes 0 (the goroutine that calls Execute) and 1..MaxBranches (the  *)
(* goroutines executeParallel starts, or the clients of the store).        *)
(***************************************************************************)
EXTENDS Integers, Sequences, FiniteSets, Bags, TLC

\* ------------------------------------------------------------------ bounds
MaxAgents == 2        \* declared agents per configuration
MaxSteps == 2         \* steps of a sequential workflow
MaxBranches == 2      \* branches of a parallel workflow
TimeoutTicks == 1     \* the 5 minute wait of RunAgent, in clock ticks
MaxTimeout == 1       \* largest timeout a store client passes to WaitFor
MaxMemOps == 3        \* store operations started by the store clients
MaxExecutes == 2      \* Execute calls on one executor (SpecAgain)
MaxGetState == 2      \* GetState calls by the caller (SpecState)

\* ------------------------------------------------------- program constants
maxRetries == 3

\* --------------------------------------------------------------- universes
Keys == {"k1", "k2"}
ToolText == "'''tool:calc\n1\n'''"
Texts == {"x", ToolText}
TwoToolText == "'''tool:calc\n1\n'''\n'''tool:nope\n2\n'''"
BackendErrs == {"e1", "e2"}
LLMClients == {"m1"}
Main == 0
Procs == 0..MaxBranches
Nil == "<nil>"

VARIABLES
    Config,        \* types.WorkflowConfig: Agents, Workflow
    SharedMemory,  \* Runner.SharedMemory # nil
    State,         \* Executor.State
    epc,           \* position of the goroutine inside Execute
    executes,      \* number of Execute calls made
    stepIdx,       \* index of the range loop of executeSequential
    firstErr,      \* executeParallel: firstErr
    results,       \* executeParallel: results
    bpc,           \* position of each branch goroutine
    ret,           \* what Execute returned
    History,       \* Runner.Context.History
    ra,            \* RunAgent activation of each goroutine
    data,          \* SharedMemory.data
    mu,            \* SharedMemory.mu: the goroutines holding it
    condWaiters,   \* goroutines suspended in sm.cond.Wait()
    timers,        \* bag of the timer goroutines sleeping in WaitFor
    now,           \* the clock
    wf,            \* WaitFor activation of each goroutine
    hooks,         \* Runner.MessageCallback # nil, Runner.Logger # nil
    events,        \* per goroutine: callback invocations and log lines
    memOps,        \* store operations begun by the clients (SpecMem)
    snaps,         \* per goroutine: the map its Snapshot call returned
    notifier,      \* per goroutine: the progress goroutine of RunAgent
    published,     \* history variable: per key, the values Set in order
    replay,        \* the backend and tool results of a run, kept for a rerun
    stepLog,       \* history variable: one record per RunAgent return
    failOrder,     \* history variable: errors in results-lock order
    seen           \* what the caller of GetState read, call by call

vars == <<Config, SharedMemory, State, epc, executes, stepIdx, firstErr,
          results, bpc, ret, History, ra, data, mu, condWaiters, timers,
          now, wf, hooks, events, memOps, snaps, notifier, published, stepLog,
          failOrder, replay, seen>>

execVars == <<Config, State, epc, executes, stepIdx, firstErr, results, bpc,
              ret, stepLog, failOrder, seen>>
runVars == <<SharedMemory, History, ra, hooks, events, notifier, replay>>
memVars == <<data, mu, condWaiters, timers, now, wf, memOps, snaps, published>>

\* ------------------------------------------------------------ text helpers
Contains(s, sub) ==
    \E i \in 1..(Len(s) - Len(sub) + 1) : SubSeq(s, i, i + Len(sub) - 1) = sub

Put(f, k, v) == [x \in (DOMAIN f) \cup {k} |-> IF x = k THEN v ELSE f[x]]

\* ===================================================== internal/memory ===
\* A WaitFor activation.  waits and started count the cond.Wait() calls and
\* the timer goroutines of this call; present records whether the key was
\* in the map when the call was made.
WfIdle ==
    [pc |-> "idle", key |-> Nil, timeout |-> 0, deadline |-> 0, val |-> Nil,
     err |-> Nil, waits |-> 0, started |-> 0, present |-> FALSE]

TimeoutErr(key, timeout) ==
    "timeout waiting for key '" \o key \o "' after " \o ToString(timeout)

\* cond.Signal() in the place of Broadcast: one suspended goroutine is
\* made runnable.
Signal(w) ==
    [p \in Procs |-> IF condWaiters # {} /\ p = CHOOSE q \in condWaiters : TRUE
                     THEN [w[p] EXCEPT !.pc = "woken"] ELSE w[p]]

\* sm.cond.Broadcast(): every goroutine suspended in cond.Wait() is made
\* runnable; it still has to take sm.mu again before Wait returns.
Broadcast(w) ==
    [p \in Procs |-> IF p \in condWaiters
                     THEN [w[p] EXCEPT !.pc = "woken"] ELSE w[p]]

\* WaitFor entry: deadline := time.Now().Add(timeout), then sm.mu.Lock().
WaitForCall(key, timeout) ==
    [WfIdle EXCEPT !.pc = "lock", !.key = key, !.timeout = timeout,
                   !.deadline = now + timeout,
                   !.present = (key \in DOMAIN data)]

\* sm.mu.Lock() of WaitFor.
WaitForLock(p) ==
    /\ wf[p].pc = "lock"
    /\ mu = {}
    /\ mu' = {p}
    /\ wf' = [wf EXCEPT ![p].pc = "check"]
    /\ UNCHANGED <<data, published, snaps, condWaiters, timers, now, memOps>>
    /\ UNCHANGED <<execVars, runVars>>

\* A return that hands out whatever entry the map yields first.
CheckFoundAnyKey(w) ==
    [w EXCEPT !.pc = "returned",
              !.val = data[CHOOSE k \in DOMAIN data : k # w.key
                                                     \/ DOMAIN data = {w.key}],
              !.err = Nil]

\* Key present: WaitFor returns it (the deferred Unlock runs).
CheckFound(w) ==
    [w EXCEPT !.pc = "returned", !.val = data[w.key], !.err = Nil]

\* remaining <= 0: WaitFor returns the timeout error.
CheckExpired(w) ==
    [w EXCEPT !.pc = "returned", !.val = Nil,
              !.err = TimeoutErr(w.key, w.timeout)]

\* The loop pass with the deadline test placed before the key test.
WaitForCheckDeadlineFirst(p) ==
    /\ wf[p].pc = "check"
    /\ mu = {p}
    /\ IF wf[p].deadline - now <= 0
       THEN /\ wf' = [wf EXCEPT ![p] = CheckExpired(wf[p])]
            /\ mu' = {}
            /\ UNCHANGED timers
       ELSE IF wf[p].key \in DOMAIN data
       THEN /\ wf' = [wf EXCEPT ![p] = CheckFound(wf[p])]
            /\ mu' = {}
            /\ UNCHANGED timers
       ELSE /\ wf' = [wf EXCEPT ![p].pc = "condwait",
                                ![p].started = wf[p].started + 1]
            /\ timers' = timers (+)
                  SetToBag({[owner |-> p, fireAt |-> wf[p].deadline]})
            /\ UNCHANGED mu
    /\ UNCHANGED <<data, published, snaps, condWaiters, now, memOps>>
    /\ UNCHANGED <<execVars, runVars>>

\* One pass of the for loop of WaitFor up to the cond.Wait() call: key
\* check, timeout check, start of the timer goroutine.
WaitForCheck(p) ==
    /\ wf[p].pc = "check"
    /\ mu = {p}
    /\ IF wf[p].key \in DOMAIN data
       THEN /\ wf' = [wf EXCEPT ![p] = CheckFound(wf[p])]
            /\ mu' = {}
            /\ UNCHANGED timers
       ELSE IF wf[p].deadline - now <= 0
       THEN /\ wf' = [wf EXCEPT ![p] = CheckExpired(wf[p])]
            /\ mu' = {}
            /\ UNCHANGED timers
       ELSE /\ wf' = [wf EXCEPT ![p].pc = "condwait",
                                ![p].started = wf[p].started + 1]
            /\ timers' = timers (+)
                  SetToBag({[owner |-> p, fireAt |-> wf[p].deadline]})
            /\ UNCHANGED mu
    /\ UNCHANGED <<data, published, snaps, condWaiters, now, memOps>>
    /\ UNCHANGED <<execVars, runVars>>

\* sm.cond.Wait(): release sm.mu and suspend.
WaitForCondWait(p) ==
    /\ wf[p].pc = "condwait"
    /\ mu = {p}
    /\ mu' = {}
    /\ condWaiters' = condWaiters \cup {p}
    /\ wf' = [wf EXCEPT ![p].pc = "waiting", ![p].waits = wf[p].waits + 1]
    /\ UNCHANGED <<data, published, snaps, timers, now, memOps>>
    /\ UNCHANGED <<execVars, runVars>>

\* A wake taken for the caller's own timer: the select on done returns the
\* timeout error instead of looping.
WaitForWakeTimesOut(p) ==
    /\ wf[p].pc = "woken"
    /\ mu = {}
    /\ wf' = [wf EXCEPT ![p] = CheckExpired(wf[p])]
    /\ UNCHANGED <<data, published, snaps, mu, condWaiters, timers, now, memOps>>
    /\ UNCHANGED <<execVars, runVars>>

\* cond.Wait() returns: the woken goroutine has sm.mu again; the select on
\* done changes nothing and the loop starts over.
WaitForWake(p) ==
    /\ wf[p].pc = "woken"
    /\ mu = {}
    /\ mu' = {p}
    /\ wf' = [wf EXCEPT ![p].pc = "check"]
    /\ UNCHANGED <<data, published, snaps, condWaiters, timers, now, memOps>>
    /\ UNCHANGED <<execVars, runVars>>

\* The timer goroutine of WaitFor: time.Sleep(remaining) is over, it calls
\* sm.cond.Broadcast() (without sm.mu) and closes done.
TimerFire ==
    \E t \in BagToSet(timers) :
        /\ t.fireAt <= now
        /\ timers' = timers (-) SetToBag({t})
        /\ wf' = Broadcast(wf)
        /\ condWaiters' = {}
        /\ UNCHANGED <<data, published, snaps, mu, now, memOps>>
        /\ UNCHANGED <<execVars, runVars>>

\* Time passes.  Only deadlines observe the clock, so the clock advances
\* while a WaitFor call or a timer goroutine still has a deadline ahead.
Tick ==
    /\ \/ \E p \in Procs : wf[p].pc \notin {"idle", "returned"}
                           /\ wf[p].deadline > now
       \/ \E t \in BagToSet(timers) : t.fireAt > now
    /\ now' = now + 1
    /\ UNCHANGED <<data, published, snaps, mu, condWaiters, timers, wf, memOps>>
    /\ UNCHANGED <<execVars, runVars>>

\* SharedMemory.Get: under the read lock, the value of the key and whether
\* the key is there.
Get(p, key) ==
    /\ wf[p].pc = "idle"
    /\ mu = {}
    /\ wf' = [wf EXCEPT ![p] =
                [WfIdle EXCEPT !.pc = "got", !.key = key,
                               !.present = (key \in DOMAIN data),
                               !.val = IF key \in DOMAIN data THEN data[key]
                                       ELSE Nil]]
    /\ UNCHANGED <<data, published, snaps, mu, condWaiters, timers, now>>

\* A Set that leaves a key alone once it has a value.
SetDataKeepFirst(key, value) ==
    IF key \in DOMAIN data THEN data ELSE Put(data, key, value)

\* A Snapshot that returns sm.data itself.
SnapshotAlias(d) == [shared |-> TRUE, m |-> d]

\* SharedMemory.Snapshot: a new map filled by the range loop over sm.data.
\* A Go map is a reference: shared tells whether the returned map is the
\* store's own map (then m is not used) or a map of its own.
SnapshotOf(d) == [shared |-> FALSE, m |-> d]

Snapshot(p) ==
    /\ mu = {}
    /\ snaps[p] = <<>>
    /\ snaps' = [snaps EXCEPT ![p] = <<SnapshotOf(data)>>]
    /\ UNCHANGED <<data, published, mu, condWaiters, timers, now, wf>>

\* SharedMemory.Set: under sm.mu, store the value and Broadcast.
\* Set that replaces the map by one holding the new entry only.
SetDataFresh(key, value) == [x \in {key} |-> value]

SetData(key, value) == Put(data, key, value)

Set(key, value) ==
    /\ mu = {}
    /\ data' = SetData(key, value)
    /\ published' = [published EXCEPT ![key] = Append(@, value)]
    /\ wf' = Broadcast(wf)
    /\ condWaiters' = {}
    /\ UNCHANGED <<mu, timers, now, snaps>>

\* The goroutines inside WaitFor, and the timer goroutines and the clock.
WaitForStep(p) ==
    \/ WaitForLock(p)
    \/ WaitForCheck(p)
    \/ WaitForCondWait(p)
    \/ WaitForWake(p)

\* ====================================================== internal/tools ===
\* A TLA+ string cannot hold a backquote: the fence of a tool block, three
\* backquotes in the source, is written ''' here.
Registry == {"calc"}

ToolOutputs == {"4"}
ToolErrs == {"boom"}

HasToolCalls(response) == Contains(response, "'''tool:")

IdentStart ==
    {"a","b","c","d","e","f","g","h","i","j","k","l","m","n","o","p","q",
     "r","s","t","u","v","w","x","y","z","_",
     "A","B","C","D","E","F","G","H","I","J","K","L","M","N","O","P","Q",
     "R","S","T","U","V","W","X","Y","Z"}
IdentRest == IdentStart \cup {"0","1","2","3","4","5","6","7","8","9"}
Space == {" ", "\n", "\t"}

Ch(s, i) == SubSeq(s, i, i)

\* Last index of the identifier that starts at i.
RECURSIVE IdentEnd(_, _)
IdentEnd(s, i) ==
    IF i + 1 <= Len(s) /\ Ch(s, i + 1) \in IdentRest
    THEN IdentEnd(s, i + 1) ELSE i

\* First index >= i where sub starts in s, or 0.
RECURSIVE IndexFrom(_, _, _)
IndexFrom(s, sub, i) ==
    IF i + Len(sub) - 1 > Len(s) THEN 0
    ELSE IF SubSeq(s, i, i + Len(sub) - 1) = sub THEN i
    ELSE IndexFrom(s, sub, i + 1)

RECURSIVE TrimLeft(_)
TrimLeft(s) ==
    IF Len(s) > 0 /\ Ch(s, 1) \in Space
    THEN TrimLeft(SubSeq(s, 2, Len(s))) ELSE s
RECURSIVE TrimRight(_)
TrimRight(s) ==
    IF Len(s) > 0 /\ Ch(s, Len(s)) \in Space
    THEN TrimRight(SubSeq(s, 1, Len(s) - 1)) ELSE s
TrimSpace(s) == TrimRight(TrimLeft(s))

\* ParseToolCalls: the matches of '''tool:<name>\n<input>''' from index i
\* on, leftmost first, the input matched lazily.
RECURSIVE ParseFrom(_, _)
ParseFrom(s, i) ==
    LET open == IndexFrom(s, "'''tool:", i) IN
    IF open = 0 THEN <<>>
    ELSE LET n1 == open + 8 IN
         IF n1 > Len(s) \/ Ch(s, n1) \notin IdentStart THEN ParseFrom(s, open + 1)
         ELSE LET n2 == IdentEnd(s, n1)
                  close == IndexFrom(s, "'''", n2 + 2) IN
              IF n2 + 1 > Len(s) \/ Ch(s, n2 + 1) # "\n" \/ close = 0
              THEN ParseFrom(s, open + 1)
              ELSE <<[Name |-> TrimSpace(SubSeq(s, n1, n2)),
                      Input |-> TrimSpace(SubSeq(s, n2 + 2, close - 1))]>>
                   \o ParseFrom(s, close + 3)

\* The parse of each text a backend of the model can answer, done once.
ParsedTexts == [t \in Texts \cup {TwoToolText} |-> ParseFrom(t, 1)]

ParseToolCalls(response) ==
    IF response \in DOMAIN ParsedTexts THEN ParsedTexts[response]
    ELSE ParseFrom(response, 1)

\* ExecuteToolCalls with a return at the first unknown tool.
RECURSIVE KnownPrefix(_, _)
KnownPrefix(calls, i) ==
    IF i > Len(calls) \/ calls[i].Name \notin Registry THEN i - 1
    ELSE KnownPrefix(calls, i + 1)
ExecuteToolCallsStopAtUnknown(calls, outs) ==
    [i \in 1..KnownPrefix(calls, 1) |->
        [ToolName |-> calls[i].Name, Output |-> outs[i].Output,
         Error |-> outs[i].Error]]

\* ExecuteToolCalls: one result per call, in order; outs[i] is what the
\* registered tool of call i returns.
ExecuteToolCalls(calls, outs) ==
    [i \in 1..Len(calls) |->
        IF calls[i].Name \notin Registry
        THEN [ToolName |-> calls[i].Name, Output |-> "",
              Error |-> "unknown tool: " \o calls[i].Name]
        ELSE [ToolName |-> calls[i].Name, Output |-> outs[i].Output,
              Error |-> outs[i].Error]]

RECURSIVE FormatResultsFrom(_, _)
FormatResultsFrom(rs, i) ==
    IF i > Len(rs) THEN ""
    ELSE "\n[" \o rs[i].ToolName \o "]:\n"
         \o (IF rs[i].Error # Nil THEN "ERROR: " \o rs[i].Error \o "\n"
             ELSE rs[i].Output \o "\n")
         \o FormatResultsFrom(rs, i + 1)

FormatToolResults(rs) ==
    IF Len(rs) = 0 THEN ""
    ELSE "\n\n=== Tool Results ===\n" \o FormatResultsFrom(rs, 1)

RECURSIVE FormatToolLines(_)
FormatToolLines(names) ==
    IF names = <<>> THEN ""
    ELSE "- **" \o names[1] \o "**: d\n" \o FormatToolLines(Tail(names))

FormatToolsForPrompt(names) ==
    IF Len(names) = 0 THEN ""
    ELSE "You have access to the following tools:\n\n"
         \o FormatToolLines(names)
         \o "\nTo use a tool, write your response in this format:\n"
         \o "'''tool:<tool_name>\n<input for the tool>\n'''\n"
         \o "\nThe tool output will be provided to you for further processing.\n"

\* GetByNames: the tools named, or nothing when one of them is unknown.
GetByNames(names) ==
    IF \A i \in 1..Len(names) : names[i] \in Registry THEN names ELSE <<>>

\* GetByPrefix: the registered tools whose name starts with prefix.
RegistryOrder == <<"calc">>
GetByPrefix(prefix) ==
    SelectSeq(RegistryOrder,
              LAMBDA n : Len(n) > Len(prefix) /\ SubSeq(n, 1, Len(prefix)) = prefix)

\* =========================================================== pkg/types ===
Agent(id, model, instruction, tools, subs, outputs, requires) ==
    [ID |-> id, Model |-> model, Role |-> "role-" \o id, Goal |-> "goal-" \o id,
     Instruction |-> instruction, Tools |-> tools, Toolsets |-> <<>>,
     SubAgents |-> subs, Outputs |-> outputs, Requires |-> requires]

GetPrompt(a) == IF a.Instruction # "" THEN a.Instruction ELSE a.Goal

IsSupervisor(a) == Len(a.SubAgents) > 0

\* ====================================================== internal/agent ===
SessionHistory == ""

\* ContextManager.GetContext
RECURSIVE ContextFrom(_, _)
ContextFrom(h, i) ==
    IF i > Len(h) THEN ""
    ELSE "[" \o h[i].AgentID \o "]:\n" \o h[i].Response \o "\n\n"
         \o ContextFrom(h, i + 1)

\* GetContext with the range loop starting one entry late.
GetContextSkipFirst(h) ==
    IF Len(h) = 0 THEN ""
    ELSE "Context from previous agents:\n\n" \o ContextFrom(h, 2)

GetContext(h) ==
    IF Len(h) = 0 THEN ""
    ELSE "Context from previous agents:\n\n" \o ContextFrom(h, 1)

\* GetLastOutput reading index 0 instead of len-1.
GetLastOutputFirst(h) == IF Len(h) = 0 THEN "" ELSE h[1].Response

\* ContextManager.GetLastOutput
GetLastOutput(h) == IF Len(h) = 0 THEN "" ELSE h[Len(h)].Response

RECURSIVE ToolsetTools(_)
ToolsetTools(sets) ==
    IF sets = <<>> THEN <<>>
    ELSE GetByPrefix(sets[1] \o ".") \o ToolsetTools(Tail(sets))

\* Runner.buildPrompt
buildPrompt(a, h) ==
    LET p0 == GetPrompt(a)
        p1 == IF SessionHistory # "" THEN SessionHistory \o "\n\n" \o p0 ELSE p0
        context == GetContext(h)
        p2 == IF context # "" THEN p1 \o "\n\n" \o context ELSE p1
        allTools == (IF Len(a.Tools) > 0 THEN GetByNames(a.Tools) ELSE <<>>)
                    \o (IF Len(a.Toolsets) > 0 THEN ToolsetTools(a.Toolsets)
                        ELSE <<>>)
    IN  IF Len(allTools) > 0 THEN p2 \o "\n\n" \o FormatToolsForPrompt(allTools)
        ELSE p2

\* Runner.GetAgent: the first declared agent with this id (as a sequence
\* of one agent), or nil (the empty sequence).
GetAgent(id) ==
    LET hits == {i \in 1..Len(Config.Agents) : Config.Agents[i].ID = id} IN
    IF hits = {} THEN <<>>
    ELSE <<Config.Agents[CHOOSE i \in hits : \A j \in hits : i <= j]>>

NoAgent == Agent("", "", "", <<>>, <<>>, <<>>, <<>>)

\* A RunAgent activation.  phase tells the two AddOutput calls apart; val
\* is what WaitFor returned; snap is the slice header the append of
\* AddOutput has read; gens counts the Generate calls of the attempt loop
\* and follow the follow-up calls; raw is the response of the attempt loop
\* fprompt the prompt of the follow-up call, tres the tool results and
\* fres what the follow-up call returned.
RaIdle ==
    [pc |-> "idle", agent |-> NoAgent, req |-> 0, out |-> 0, prompt |-> "",
     response |-> "", err |-> Nil, attempt |-> 0, sleeps |-> <<>>,
     gens |-> 0, follow |-> 0, phase |-> "", val |-> "", snap |-> <<>>,
     lastErr |-> Nil, raw |-> "", fprompt |-> "", tres |-> <<>>,
     fres |-> <<>>, entry |-> <<>>]

\* History variable of a RunAgent call: the history, the store and the
\* callback and log records the call found.
Entered(a) ==
    [RaIdle EXCEPT !.agent = a,
                   !.entry = <<[History |-> History, data |-> data,
                                events |-> events]>>]

\* RunAgent with the wait for the required keys ahead of the client lookup.
RunAgentEntryRequiresFirst(a) ==
    IF SharedMemory /\ Len(a.Requires) > 0
    THEN [Entered(a) EXCEPT !.pc = "require", !.agent = a, !.req = 1]
    ELSE IF a.Model \notin LLMClients
    THEN [Entered(a) EXCEPT !.pc = "ret", !.agent = a,
                        !.err = "model not found: " \o a.Model]
    ELSE [Entered(a) EXCEPT !.pc = "prompt", !.agent = a]

\* RunAgent up to its first blocking call: the client lookup.
RunAgentEntry(a) ==
    IF a.Model \notin LLMClients
    THEN [Entered(a) EXCEPT !.pc = "ret", !.agent = a,
                        !.err = "model not found: " \o a.Model]
    ELSE IF SharedMemory /\ Len(a.Requires) > 0
    THEN [Entered(a) EXCEPT !.pc = "require", !.agent = a, !.req = 1]
    ELSE [Entered(a) EXCEPT !.pc = "prompt", !.agent = a]

LogEvent(p, e) ==
    IF hooks.logger THEN [events EXCEPT ![p] = Append(@, e)] ELSE events

\* r.SharedMemory.WaitFor(key, 5*time.Minute) is called.
RunAgentRequire(p) ==
    /\ ra[p].pc = "require"
    /\ wf' = [wf EXCEPT ![p] =
                WaitForCall(ra[p].agent.Requires[ra[p].req], TimeoutTicks)]
    /\ ra' = [ra EXCEPT ![p].pc = "awaiting"]
    /\ UNCHANGED <<SharedMemory, notifier, History, hooks, replay, events>>
    /\ UNCHANGED execVars
    /\ UNCHANGED <<data, published, snaps, mu, condWaiters, timers, now, memOps>>

RequireErr(a, key, err) ==
    "agent " \o a.ID \o ": failed to get required key '" \o key \o "': " \o err

\* WaitFor has returned: an error ends RunAgent, a value is to be added to
\* the history as shared:<key>.
RunAgentReceive(p) ==
    /\ ra[p].pc = "awaiting"
    /\ wf[p].pc = "returned"
    /\ ra' = [ra EXCEPT ![p] =
                IF wf[p].err # Nil
                THEN [@ EXCEPT !.pc = "ret",
                               !.err = RequireErr(ra[p].agent, wf[p].key,
                                                 wf[p].err)]
                ELSE [@ EXCEPT !.pc = "append", !.phase = "shared",
                               !.val = wf[p].val]]
    /\ wf' = [wf EXCEPT ![p] = WfIdle]
    /\ UNCHANGED <<SharedMemory, notifier, History, hooks, replay, events>>
    /\ UNCHANGED execVars
    /\ UNCHANGED <<data, published, snaps, mu, condWaiters, timers, now, memOps>>

\* The entry an AddOutput call of RunAgent appends.
AddOutputEntry(p) ==
    IF ra[p].phase = "shared"
    THEN [AgentID |-> "shared:" \o ra[p].agent.Requires[ra[p].req],
          Response |-> ra[p].val]
    ELSE [AgentID |-> ra[p].agent.ID, Response |-> ra[p].response]

\* ContextManager.AddOutput holds no lock: its append reads the slice ...
AddOutputRead(p) ==
    /\ ra[p].pc = "append"
    /\ ra' = [ra EXCEPT ![p].pc = "append2", ![p].snap = History]
    /\ UNCHANGED <<SharedMemory, notifier, History, hooks, replay, events>>
    /\ UNCHANGED execVars
    /\ UNCHANGED memVars

\* AfterAppend with the publishing loop inside the r.Logger != nil test.
AfterAppendPublishIfLogged(r) ==
    IF r.phase = "shared"
    THEN IF r.req < Len(r.agent.Requires)
         THEN [r EXCEPT !.pc = "require", !.req = r.req + 1, !.snap = <<>>,
                        !.val = ""]
         ELSE [r EXCEPT !.pc = "prompt", !.snap = <<>>, !.val = ""]
    ELSE IF SharedMemory /\ hooks.logger /\ Len(r.agent.Outputs) > 0
    THEN [r EXCEPT !.pc = "publish", !.out = 1, !.snap = <<>>]
    ELSE [r EXCEPT !.pc = "finish", !.snap = <<>>]

\* AfterAppend without the publication of the outputs.
AfterAppendNoPublish(r) ==
    IF r.phase = "shared"
    THEN IF r.req < Len(r.agent.Requires)
         THEN [r EXCEPT !.pc = "require", !.req = r.req + 1, !.snap = <<>>,
                        !.val = ""]
         ELSE [r EXCEPT !.pc = "prompt", !.snap = <<>>, !.val = ""]
    ELSE [r EXCEPT !.pc = "finish", !.snap = <<>>]

\* AfterAppend that publishes without testing r.SharedMemory != nil.
AfterAppendPublishNoStore(r) ==
    IF r.phase = "shared"
    THEN IF r.req < Len(r.agent.Requires)
         THEN [r EXCEPT !.pc = "require", !.req = r.req + 1, !.snap = <<>>,
                        !.val = ""]
         ELSE [r EXCEPT !.pc = "prompt", !.snap = <<>>, !.val = ""]
    ELSE IF Len(r.agent.Outputs) > 0
         THEN [r EXCEPT !.pc = "publish", !.out = 1, !.snap = <<>>]
         ELSE [r EXCEPT !.pc = "finish", !.snap = <<>>]

AfterAppend(r) ==
    IF r.phase = "shared"
    THEN IF r.req < Len(r.agent.Requires)
         THEN [r EXCEPT !.pc = "require", !.req = r.req + 1, !.snap = <<>>,
                        !.val = ""]
         ELSE [r EXCEPT !.pc = "prompt", !.snap = <<>>, !.val = ""]
    ELSE IF SharedMemory /\ Len(r.agent.Outputs) > 0
         THEN [r EXCEPT !.pc = "publish", !.out = 1, !.snap = <<>>]
         ELSE [r EXCEPT !.pc = "finish", !.snap = <<>>]

AppendTo(h, e) == Append(h, e)

\* ... and then stores the slice with the entry appended.
AddOutputWrite(p) ==
    /\ ra[p].pc = "append2"
    /\ History' = AppendTo(ra[p].snap, AddOutputEntry(p))
    /\ ra' = [ra EXCEPT ![p] = AfterAppend(@)]
    /\ UNCHANGED <<SharedMemory, notifier, hooks, replay, events>>
    /\ UNCHANGED execVars
    /\ UNCHANGED memVars

\* The progress goroutine of RunAgent: not started, or started with the
\* done channel open.
NotifierOff == [pc |-> "none", done |-> FALSE, late |-> 0]
NotifierStarted == [pc |-> "select", done |-> FALSE, late |-> 0]

\* close(done) follows the attempt loop.
CloseDone(r) == r.pc # "gen"

\* prompt := r.buildPrompt(agentDef), the STARTED log line, and the start
\* of the progress goroutine.
RunAgentPrompt(p) ==
    /\ ra[p].pc = "prompt"
    /\ ra' = [ra EXCEPT ![p].pc = "gen", ![p].attempt = 1,
                        ![p].prompt = buildPrompt(ra[p].agent, History)]
    /\ events' = LogEvent(p, <<"STARTED", ra[p].agent.ID>>)
    /\ notifier' = [notifier EXCEPT ![p] = NotifierStarted]
    /\ UNCHANGED <<SharedMemory, History, hooks, replay>>
    /\ UNCHANGED execVars
    /\ UNCHANGED memVars

GenerateErr(a, err) ==
    "agent " \o a.ID \o " failed after " \o ToString(maxRetries)
    \o " attempts: " \o err

WantsTools(a, response) ==
    /\ Len(a.Tools) > 0
    /\ HasToolCalls(response)
    /\ Len(ParseToolCalls(response)) > 0

\* One pass of the attempt loop: client.Generate(prompt) returns.
GenerateOk(r, text) ==
    [r EXCEPT !.response = text, !.raw = text, !.err = Nil,
              !.gens = r.gens + 1, !.lastErr = Nil,
              !.pc = IF WantsTools(r.agent, text) THEN "tools" ELSE "append",
              !.phase = "own"]

\* The attempt loop with time.Sleep(time.Second) between attempts.
GenerateFailFixedWait(r, e) ==
    IF r.attempt < maxRetries
    THEN [r EXCEPT !.err = e, !.gens = r.gens + 1, !.lastErr = e,
                   !.sleeps = Append(r.sleeps, 1),
                   !.attempt = r.attempt + 1]
    ELSE [r EXCEPT !.pc = "ret", !.response = "", !.gens = r.gens + 1,
                   !.lastErr = e,
                   !.err = GenerateErr(r.agent, e)]

\* The attempt loop without the err != nil return after it: the empty
\* response goes on to the history and the store.
GenerateFailGoesOn(r, e) ==
    IF r.attempt < maxRetries
    THEN [r EXCEPT !.err = e, !.gens = r.gens + 1, !.lastErr = e,
                   !.sleeps = Append(r.sleeps, r.attempt),
                   !.attempt = r.attempt + 1]
    ELSE [r EXCEPT !.pc = "append", !.phase = "own", !.response = "",
                   !.gens = r.gens + 1, !.lastErr = e,
                   !.err = GenerateErr(r.agent, e)]

\* A failed attempt: the wait before the next one, or, after the last,
\* the error RunAgent returns.  lastErr keeps what Generate returned.
\* A generation failure after the last attempt that is recorded as the
\* task's output before the error is returned.
GenerateFailAppends(r, e) ==
    IF r.attempt < maxRetries
    THEN [r EXCEPT !.err = e, !.gens = r.gens + 1, !.lastErr = e,
                   !.sleeps = Append(r.sleeps, r.attempt),
                   !.attempt = r.attempt + 1]
    ELSE [r EXCEPT !.pc = "append", !.response = "", !.gens = r.gens + 1,
                   !.lastErr = e,
                   !.err = GenerateErr(r.agent, e)]

GenerateFail(r, e) ==
    IF r.attempt < maxRetries
    THEN [r EXCEPT !.err = e, !.gens = r.gens + 1, !.lastErr = e,
                   !.sleeps = Append(r.sleeps, r.attempt),
                   !.attempt = r.attempt + 1]
    ELSE [r EXCEPT !.pc = "ret", !.response = "", !.gens = r.gens + 1,
                   !.lastErr = e,
                   !.err = GenerateErr(r.agent, e)]

\* The results the backend and the tools gave to a run, in the order the
\* run asked for them.  A run started with mode "rec" records them; a run
\* with mode "play" is given the recorded results again; first is what
\* the recorded run left behind.
ReplayOff == [mode |-> "off", tape |-> <<>>, first |-> <<>>]
ReplayRec == [mode |-> "rec", tape |-> <<>>, first |-> <<>>]
GenItem(text, err) == [k |-> "gen", text |-> text, err |-> err, outs |-> <<>>]
ToolItem(outs, f) == [k |-> "tool", text |-> f.text, err |-> f.err, outs |-> outs]
Given(x) ==
    replay.mode = "play" => (replay.tape # <<>> /\ Head(replay.tape) = x)
Taken(x) ==
    IF replay.mode = "rec" THEN [replay EXCEPT !.tape = Append(@, x)]
    ELSE IF replay.mode = "play" THEN [replay EXCEPT !.tape = Tail(@)]
    ELSE replay

\* The texts the backend of agent a answers with: the response with two
\* blocks is given to the agents that are shown tools.
Responses(a) ==
    IF Len(a.Tools) > 0 \/ Len(a.Toolsets) > 0
    THEN Texts \cup {TwoToolText} ELSE Texts

RunAgentGenerate(p) ==
    /\ ra[p].pc = "gen"
    /\ \/ \E text \in Responses(ra[p].agent) :
             /\ Given(GenItem(text, Nil))
             /\ replay' = Taken(GenItem(text, Nil))
             /\ ra' = [ra EXCEPT ![p] = GenerateOk(@, text)]
       \/ \E e \in BackendErrs :
             /\ Given(GenItem("", e))
             /\ replay' = Taken(GenItem("", e))
             /\ ra' = [ra EXCEPT ![p] = GenerateFail(@, e)]
    /\ notifier' = [notifier EXCEPT ![p].done = CloseDone(ra'[p])]
    /\ UNCHANGED <<SharedMemory, History, hooks, events>>
    /\ UNCHANGED execVars
    /\ UNCHANGED memVars

FollowupPrompt(prompt, response, toolOutput) ==
    prompt \o "\n\nPrevious response:\n" \o response \o toolOutput
    \o "\n\nNow provide your final response incorporating the tool results:"

\* What the follow-up Generate call returns.
FollowupOutcomes ==
    {[text |-> t, err |-> Nil] : t \in Texts}
    \cup {[text |-> "", err |-> e] : e \in BackendErrs}

\* The follow-up call with its error returned to the caller of RunAgent.
AfterFollowupFatal(r, fp, f) ==
    IF f.err = Nil
    THEN [r EXCEPT !.pc = "append", !.follow = r.follow + 1, !.fprompt = fp,
                   !.fres = <<f>>, !.response = f.text]
    ELSE [r EXCEPT !.pc = "ret", !.follow = r.follow + 1, !.fprompt = fp,
                   !.fres = <<f>>, !.response = "", !.err = f.err]

\* followupResponse, followupErr := client.Generate(followupPrompt): the
\* response is replaced only when followupErr == nil.
AfterFollowup(r, fp, f) ==
    [r EXCEPT !.pc = "append", !.follow = r.follow + 1, !.fprompt = fp,
              !.fres = <<f>>,
              !.response = IF f.err = Nil THEN f.text ELSE r.response]

ToolOutcomes ==
    {[Output |-> o, Error |-> Nil] : o \in ToolOutputs}
    \cup {[Output |-> "", Error |-> e] : e \in ToolErrs}

ToolLogLines(calls, rs) ==
    [i \in 1..Len(rs) |->
        <<"TOOL", rs[i].ToolName, calls[i].Input,
          IF rs[i].Error # Nil THEN "ERROR: " \o rs[i].Error ELSE rs[i].Output>>]

\* The tool round trip: the calls are executed and one follow-up Generate
\* is made; its text replaces the response when it succeeds.
RunAgentTools(p) ==
    /\ ra[p].pc = "tools"
    /\ LET calls == ParseToolCalls(ra[p].response) IN
       \E outs \in [1..Len(calls) -> ToolOutcomes] :
         LET rs == ExecuteToolCalls(calls, outs)
             toolOutput == FormatToolResults(rs)
         IN  /\ events' = IF hooks.logger
                           THEN [events EXCEPT ![p] = @ \o ToolLogLines(calls, rs)]
                           ELSE events
             /\ IF toolOutput # ""
                THEN \E f \in FollowupOutcomes :
                       /\ Given(ToolItem(outs, f))
                       /\ replay' = Taken(ToolItem(outs, f))
                       /\ ra' = [ra EXCEPT ![p] =
                                AfterFollowup([@ EXCEPT !.tres = rs],
                                              FollowupPrompt(ra[p].prompt,
                                                  ra[p].response, toolOutput), f)]
                ELSE /\ ra' = [ra EXCEPT ![p].pc = "append", ![p].tres = rs]
                     /\ UNCHANGED replay
    /\ UNCHANGED <<SharedMemory, notifier, History, hooks>>
    /\ UNCHANGED execVars
    /\ UNCHANGED memVars

\* r.SharedMemory.Set(key, response) for the next declared output key.
RunAgentPublish(p) ==
    /\ ra[p].pc = "publish"
    /\ Set(ra[p].agent.Outputs[ra[p].out], ra[p].response)
    /\ ra' = [ra EXCEPT ![p].out = @ + 1,
                        ![p].pc = IF ra[p].out < Len(ra[p].agent.Outputs)
                                  THEN "publish" ELSE "finish"]
    /\ events' = LogEvent(p, <<"SHARED_MEMORY_PUBLISH", ra[p].agent.ID,
                               ra[p].agent.Outputs[ra[p].out]>>)
    /\ UNCHANGED <<SharedMemory, notifier, History, hooks, replay, memOps>>
    /\ UNCHANGED execVars

\* A callback handed the first answer of the backend.
MessageCallbackRaw(r) ==
    IF hooks.callback
    THEN <<(<<"CALLBACK", r.agent.ID, r.agent.Role, r.raw>>)>>
    ELSE <<>>

\* r.MessageCallback(agentDef.ID, agentDef.Role, response) when it is set.
MessageCallback(r) ==
    IF hooks.callback
    THEN <<(<<"CALLBACK", r.agent.ID, r.agent.Role, r.response>>)>>
    ELSE <<>>

\* The COMPLETED log lines, the message callback, return response, nil.
RunAgentFinish(p) ==
    /\ ra[p].pc = "finish"
    /\ ra' = [ra EXCEPT ![p].pc = "ret"]
    /\ events' = [events EXCEPT ![p] =
          @ \o (IF hooks.logger
                THEN <<(<<"OUTPUT", ra[p].agent.ID, ra[p].response>>),
                       (<<"COMPLETED", ra[p].agent.ID>>)>>
                ELSE <<>>)
            \o MessageCallback(ra[p])]
    /\ UNCHANGED <<SharedMemory, notifier, History, hooks, replay>>
    /\ UNCHANGED execVars
    /\ UNCHANGED memVars

\* The progress goroutine of RunAgent.  It shares only the channel done
\* with its caller and writes to standard output, so its steps change
\* nothing but its own record.  late counts the "Still generating..."
\* lines printed after close(done).
\* select { case <-done: return; default: ... }
NotifierSelect(p) ==
    /\ notifier[p].pc = "select"
    /\ notifier' = [notifier EXCEPT ![p].pc =
                        IF notifier[p].done THEN "exited" ELSE "body"]
    /\ UNCHANGED <<SharedMemory, History, ra, hooks, replay, events>>
    /\ UNCHANGED execVars
    /\ UNCHANGED memVars

\* The default branch: the line is printed when 5 seconds have passed
\* since the last one (log), then the 100 ms sleep ends the pass.
NotifierBody(p) ==
    /\ notifier[p].pc = "body"
    /\ \E log \in BOOLEAN :
         notifier' = [notifier EXCEPT
                         ![p].pc = "select",
                         ![p].late = IF log /\ notifier[p].done
                                     THEN @ + 1 ELSE @]
    /\ UNCHANGED <<SharedMemory, History, ra, hooks, replay, events>>
    /\ UNCHANGED execVars
    /\ UNCHANGED memVars

RunAgentStep(p) ==
    \/ RunAgentRequire(p)
    \/ RunAgentReceive(p)
    \/ AddOutputRead(p)
    \/ AddOutputWrite(p)
    \/ RunAgentPrompt(p)
    \/ RunAgentGenerate(p)
    \/ RunAgentTools(p)
    \/ RunAgentPublish(p)
    \/ RunAgentFinish(p)

\* ===================================================== internal/engine ===
\* State
NewState(totalSteps) ==
    [Status |-> "pending", CurrentStep |-> 0, TotalSteps |-> totalSteps,
     Error |-> Nil]

Start(s) == [s EXCEPT !.Status = "running"]
Complete(s) == [s EXCEPT !.Status = "completed"]
FailNoError(s, err) == [s EXCEPT !.Status = "failed"]
Fail(s, err) == [s EXCEPT !.Status = "failed", !.Error = err]
NextStep(s) == [s EXCEPT !.CurrentStep = s.CurrentStep + 1]

\* A GetState that counts its own calls into the step counter.
GetStateCounting(s) == [s EXCEPT !.CurrentStep = @ + Len(seen)]

\* GetState hands out the executor's State.
GetState(s) == s

\* NewExecutor: the step count handed to NewState.
TotalSteps(c) ==
    IF c.Workflow = <<>> THEN 0
    ELSE Len(c.Workflow[1].Steps) + Len(c.Workflow[1].Branches)
         + Len(c.Workflow[1].Then)

Workflow == Config.Workflow[1]
Returned(out, err) == <<[out |-> out, err |-> err]>>
CanExecute == epc = "idle"
NoBranches == [i \in 1..MaxBranches |-> "none"]

\* An Execute that marks the run failed when the workflow type is unknown.
ExecuteUnknownFails ==
    /\ CanExecute
    /\ Config.Workflow # <<>>
    /\ Workflow.Type \notin {"sequential", "parallel"}
    /\ ret' = Returned("", "unknown workflow type: " \o Workflow.Type)
    /\ State' = Fail(State, "unknown workflow type: " \o Workflow.Type)
    /\ epc' = "done"
    /\ executes' = executes + 1
    /\ UNCHANGED <<seen, Config, stepIdx, firstErr, results, bpc, stepLog,
                   failOrder>>
    /\ UNCHANGED runVars
    /\ UNCHANGED memVars

\* Execute with an unknown workflow type.
ExecuteUnknown ==
    /\ CanExecute
    /\ Config.Workflow # <<>>
    /\ Workflow.Type \notin {"sequential", "parallel"}
    /\ ret' = Returned("", "unknown workflow type: " \o Workflow.Type)
    /\ epc' = "done"
    /\ executes' = executes + 1
    /\ UNCHANGED <<seen, Config, State, stepIdx, firstErr, results, bpc, stepLog,
                   failOrder>>
    /\ UNCHANGED runVars
    /\ UNCHANGED memVars

\* Execute -> executeSequential: e.State.Start(), then the range loop.
ExecuteSequential ==
    /\ CanExecute
    /\ Config.Workflow # <<>>
    /\ Workflow.Type = "sequential"
    /\ State' = Start(State)
    /\ epc' = "seq"
    /\ stepIdx' = 1
    /\ executes' = executes + 1
    /\ ret' = <<>>
    /\ stepLog' = <<>>
    /\ UNCHANGED <<seen, Config, firstErr, results, bpc, failOrder>>
    /\ UNCHANGED runVars
    /\ UNCHANGED memVars

\* Top of the range loop: past the last step Complete and return the final
\* output; else resolve the step's agent and call RunAgent.
SequentialNext ==
    /\ epc = "seq"
    /\ IF stepIdx > Len(Workflow.Steps)
       THEN /\ State' = Complete(State)
            /\ ret' = Returned(GetLastOutput(History), Nil)
            /\ epc' = "done"
            /\ UNCHANGED ra
       ELSE LET agentDef == GetAgent(Workflow.Steps[stepIdx]) IN
            IF agentDef = <<>>
            THEN LET err == "agent not found: " \o Workflow.Steps[stepIdx] IN
                 /\ State' = Fail(State, err)
                 /\ ret' = Returned("", err)
                 /\ epc' = "done"
                 /\ UNCHANGED ra
            ELSE /\ ra' = [ra EXCEPT ![Main] = RunAgentEntry(agentDef[1])]
                 /\ epc' = "seq_run"
                 /\ UNCHANGED <<State, ret>>
    /\ UNCHANGED <<seen, Config, executes, stepIdx, firstErr, results, bpc, stepLog,
                   failOrder>>
    /\ UNCHANGED <<SharedMemory, notifier, History, hooks, replay, events>>
    /\ UNCHANGED memVars

LogOf(r) ==
    [agent |-> r.agent.ID, prompt |-> r.prompt, out |-> r.response,
     err |-> r.err, gens |-> r.gens]

\* RunAgent returned to the loop: an error fails the run, else NextStep.
SequentialReturn ==
    /\ epc = "seq_run"
    /\ ra[Main].pc = "ret"
    /\ stepLog' = Append(stepLog, LogOf(ra[Main]))
    /\ IF ra[Main].err # Nil
       THEN /\ State' = Fail(State, ra[Main].err)
            /\ ret' = Returned("", ra[Main].err)
            /\ epc' = "done"
            /\ UNCHANGED stepIdx
       ELSE /\ State' = NextStep(State)
            /\ stepIdx' = stepIdx + 1
            /\ epc' = "seq"
            /\ UNCHANGED ret
    /\ ra' = [ra EXCEPT ![Main] = RaIdle]
    /\ UNCHANGED <<seen, Config, executes, firstErr, results, bpc, failOrder>>
    /\ UNCHANGED <<SharedMemory, notifier, History, hooks, replay, events>>
    /\ UNCHANGED memVars

\* Execute -> executeParallel: e.State.Start(), one goroutine per branch.
ExecuteParallel ==
    /\ CanExecute
    /\ Config.Workflow # <<>>
    /\ Workflow.Type = "parallel"
    /\ State' = Start(State)
    /\ epc' = "par_wait"
    /\ executes' = executes + 1
    /\ ret' = <<>>
    /\ firstErr' = Nil
    /\ results' = <<>>
    /\ failOrder' = <<>>
    /\ stepLog' = <<>>
    /\ bpc' = [i \in 1..MaxBranches |->
                IF i <= Len(Workflow.Branches) THEN "start" ELSE "none"]
    /\ ra' = [p \in Procs |-> RaIdle]
    /\ UNCHANGED <<seen, Config, stepIdx>>
    /\ UNCHANGED <<SharedMemory, notifier, History, hooks, replay, events>>
    /\ UNCHANGED memVars

\* The critical section without the firstErr == nil test.
RecordErrLast(first, err) == err

\* The critical section of a branch goroutine under mu.
RecordErr(first, err) == IF first = Nil THEN err ELSE first

\* A branch goroutine starts: an unknown agent is recorded as an error,
\* else RunAgent is called.
BranchStart(i) ==
    /\ bpc[i] = "start"
    /\ LET id == Workflow.Branches[i]
           agentDef == GetAgent(id) IN
       IF agentDef = <<>>
       THEN /\ firstErr' = RecordErr(firstErr, "agent not found: " \o id)
            /\ failOrder' = Append(failOrder, "agent not found: " \o id)
            /\ bpc' = [bpc EXCEPT ![i] = "done"]
            /\ UNCHANGED ra
       ELSE /\ ra' = [ra EXCEPT ![i] = RunAgentEntry(agentDef[1])]
            /\ bpc' = [bpc EXCEPT ![i] = "run"]
            /\ UNCHANGED <<firstErr, failOrder>>
    /\ UNCHANGED <<seen, Config, State, epc, executes, stepIdx, results, ret, stepLog>>
    /\ UNCHANGED <<SharedMemory, notifier, History, hooks, replay, events>>
    /\ UNCHANGED memVars

\* RunAgent returned in a branch goroutine: under mu the error or the
\* result is recorded, then wg.Done().
BranchFinish(i) ==
    /\ bpc[i] = "run"
    /\ ra[i].pc = "ret"
    /\ IF ra[i].err # Nil
       THEN /\ firstErr' = RecordErr(firstErr, ra[i].err)
            /\ failOrder' = Append(failOrder, ra[i].err)
            /\ UNCHANGED results
       ELSE /\ results' = Put(results, Workflow.Branches[i], ra[i].response)
            /\ UNCHANGED <<firstErr, failOrder>>
    /\ bpc' = [bpc EXCEPT ![i] = "done"]
    /\ ra' = [ra EXCEPT ![i] = RaIdle]
    /\ UNCHANGED <<seen, Config, State, epc, executes, stepIdx, ret, stepLog>>
    /\ UNCHANGED <<SharedMemory, notifier, History, hooks, replay, events>>
    /\ UNCHANGED memVars

\* A join that gives up as soon as one branch has reported an error.
JoinedOrFailed ==
    \/ firstErr # Nil
    \/ \A i \in 1..Len(Workflow.Branches) : bpc[i] = "done"

\* wg.Wait() is over when every branch goroutine has called wg.Done().
Joined == \A i \in 1..Len(Workflow.Branches) : bpc[i] = "done"

\* The decision after wg.Wait() with the then agent looked at before
\* firstErr.
ParallelJoinThenFirst ==
    /\ epc = "par_wait"
    /\ Joined
    /\ IF Workflow.Then # <<>> /\ GetAgent(Workflow.Then[1]) # <<>>
       THEN /\ ra' = [ra EXCEPT ![Main] =
                       RunAgentEntry(GetAgent(Workflow.Then[1])[1])]
            /\ epc' = "par_then"
            /\ UNCHANGED <<State, ret>>
       ELSE IF firstErr # Nil
       THEN /\ State' = Fail(State, firstErr)
            /\ ret' = Returned("", firstErr)
            /\ epc' = "done"
            /\ UNCHANGED ra
       ELSE IF Workflow.Then # <<>>
       THEN LET err == "then agent not found: " \o Workflow.Then[1] IN
            /\ State' = Fail(State, err)
            /\ ret' = Returned("", err)
            /\ epc' = "done"
            /\ UNCHANGED ra
       ELSE /\ State' = Complete(State)
            /\ ret' = Returned(GetLastOutput(History), Nil)
            /\ epc' = "done"
            /\ UNCHANGED ra
    /\ UNCHANGED <<seen, Config, executes, stepIdx, firstErr, results, bpc, stepLog,
                   failOrder>>
    /\ UNCHANGED <<SharedMemory, notifier, History, hooks, replay, events>>
    /\ UNCHANGED memVars

\* After wg.Wait(): fail with firstErr, or run the then agent, or Complete.
ParallelJoin ==
    /\ epc = "par_wait"
    /\ Joined
    /\ IF firstErr # Nil
       THEN /\ State' = Fail(State, firstErr)
            /\ ret' = Returned("", firstErr)
            /\ epc' = "done"
            /\ UNCHANGED ra
       ELSE IF Workflow.Then # <<>>
       THEN LET thenAgent == GetAgent(Workflow.Then[1]) IN
            IF thenAgent = <<>>
            THEN LET err == "then agent not found: " \o Workflow.Then[1] IN
                 /\ State' = Fail(State, err)
                 /\ ret' = Returned("", err)
                 /\ epc' = "done"
                 /\ UNCHANGED ra
            ELSE /\ ra' = [ra EXCEPT ![Main] = RunAgentEntry(thenAgent[1])]
                 /\ epc' = "par_then"
                 /\ UNCHANGED <<State, ret>>
       ELSE /\ State' = Complete(State)
            /\ ret' = Returned(GetLastOutput(History), Nil)
            /\ epc' = "done"
            /\ UNCHANGED ra
    /\ UNCHANGED <<seen, Config, executes, stepIdx, firstErr, results, bpc, stepLog,
                   failOrder>>
    /\ UNCHANGED <<SharedMemory, notifier, History, hooks, replay, events>>
    /\ UNCHANGED memVars

\* RunAgent of the then agent returned.
ParallelThen ==
    /\ epc = "par_then"
    /\ ra[Main].pc = "ret"
    /\ stepLog' = Append(stepLog, LogOf(ra[Main]))
    /\ IF ra[Main].err # Nil
       THEN /\ State' = Fail(State, ra[Main].err)
            /\ ret' = Returned("", ra[Main].err)
       ELSE /\ State' = Complete(State)
            /\ ret' = Returned(GetLastOutput(History), Nil)
    /\ epc' = "done"
    /\ UNCHANGED <<seen, Config, executes, stepIdx, firstErr, results, bpc, failOrder>>
    /\ UNCHANGED runVars
    /\ UNCHANGED memVars

\* A root lookup that takes the first declared agent whatever it is.
RootAgentFirstDeclared ==
    IF Len(Config.Agents) > 0 THEN <<Config.Agents[1]>> ELSE <<>>

\* executeSupervisor: the first supervisor, else the first agent.
RootAgent ==
    LET sups == {i \in 1..Len(Config.Agents) : IsSupervisor(Config.Agents[i])} IN
    IF sups # {} THEN <<Config.Agents[CHOOSE i \in sups : \A j \in sups : i <= j]>>
    ELSE IF Len(Config.Agents) > 0 THEN <<Config.Agents[1]>>
    ELSE <<>>

\* Execute -> executeSupervisor up to the RunAgent call.
ExecuteSupervisor ==
    /\ CanExecute
    /\ Config.Workflow = <<>>
    /\ executes' = executes + 1
    /\ stepLog' = <<>>
    /\ IF RootAgent = <<>>
       THEN /\ State' = Fail(Start(State), "no root agent found")
            /\ ret' = Returned("", "no root agent found")
            /\ epc' = "done"
            /\ UNCHANGED ra
       ELSE /\ State' = Start(State)
            /\ ra' = [ra EXCEPT ![Main] = RunAgentEntry(RootAgent[1])]
            /\ ret' = <<>>
            /\ epc' = "sup_run"
    /\ UNCHANGED <<seen, Config, stepIdx, firstErr, results, bpc, failOrder>>
    /\ UNCHANGED <<SharedMemory, notifier, History, hooks, replay, events>>
    /\ UNCHANGED memVars

\* RunAgent of the root agent returned.
SupervisorReturn ==
    /\ epc = "sup_run"
    /\ ra[Main].pc = "ret"
    /\ stepLog' = Append(stepLog, LogOf(ra[Main]))
    /\ IF ra[Main].err # Nil
       THEN /\ State' = Fail(State, ra[Main].err)
            /\ ret' = Returned("", ra[Main].err)
       ELSE /\ State' = Complete(State)
            /\ ret' = Returned(ra[Main].response, Nil)
    /\ epc' = "done"
    /\ UNCHANGED <<seen, Config, executes, stepIdx, firstErr, results, bpc, failOrder>>
    /\ UNCHANGED runVars
    /\ UNCHANGED memVars

\* ------------------------------------------------------- configurations
Catalogue ==
    <<Agent("a1", "m1", "do-a1", <<>>, <<>>, <<"k1">>, <<>>),
      Agent("a2", "m1", "", <<>>, <<>>, <<"k2">>, <<"k1">>),
      Agent("a3", "m1", "", <<"calc">>, <<"a1", "a2">>, <<>>, <<"k1", "k2">>),
      Agent("a4", "m0", "", <<"calc">>, <<>>, <<"k2">>, <<"k1">>)>>

StepIDs == {Catalogue[i].ID : i \in 1..Len(Catalogue)} \cup {"zz"}

BranchIDs == {"a1", "a2", "a4", "zz"}
ThenIDs == {"a3", "zz"}

SeqsUpTo(S, n) == UNION {[1..k -> S] : k \in 0..n}

\* Everything of a fresh executor but its configuration, its store flag,
\* its hooks and the replay record.
InitCore ==
    /\ State = NewState(TotalSteps(Config))
    /\ epc = "idle"
    /\ executes = 0
    /\ stepIdx = 0
    /\ firstErr = Nil
    /\ results = <<>>
    /\ bpc = NoBranches
    /\ ret = <<>>
    /\ History = <<>>
    /\ ra = [p \in Procs |-> RaIdle]
    /\ data = <<>>
    /\ mu = {}
    /\ condWaiters = {}
    /\ timers = EmptyBag
    /\ now = 0
    /\ wf = [p \in Procs |-> WfIdle]
    /\ events = [p \in Procs |-> <<>>]
    /\ memOps = 0
    /\ snaps = [p \in Procs |-> <<>>]
    /\ notifier = [p \in Procs |-> NotifierOff]
    /\ published = [k \in Keys |-> <<>>]
    /\ stepLog = <<>>
    /\ failOrder = <<>>
    /\ seen = <<>>

InitRest ==
    /\ InitCore
    /\ replay = ReplayOff

Hooks == [callback : BOOLEAN, logger : BOOLEAN]

\* A fresh executor for a sequential workflow over the catalogue.
InitSeq ==
    /\ \E steps \in SeqsUpTo(StepIDs, MaxSteps) :
         Config = [Agents |-> Catalogue,
                   Workflow |-> <<[Type |-> "sequential", Steps |-> steps,
                                   Branches |-> <<>>, Then |-> <<>>]>>]
    /\ SharedMemory \in BOOLEAN
    /\ hooks \in Hooks
    /\ InitRest

NextSeq ==
    \/ ExecuteSequential
    \/ SequentialNext
    \/ SequentialReturn
    \/ RunAgentStep(Main)
    \/ WaitForStep(Main)
    \/ TimerFire
    \/ Tick

SpecSeq == InitSeq /\ [][NextSeq]_vars

\* A fresh executor for a parallel workflow over the catalogue.
InitPar ==
    /\ \E branches \in SeqsUpTo(BranchIDs, MaxBranches) :
       \E then \in SeqsUpTo(ThenIDs, 1) :
         Config = [Agents |-> Catalogue,
                   Workflow |-> <<[Type |-> "parallel", Steps |-> <<>>,
                                   Branches |-> branches, Then |-> then]>>]
    /\ SharedMemory \in BOOLEAN
    /\ hooks \in {h \in Hooks : h.callback = h.logger}
    /\ InitRest

NextPar ==
    \/ ExecuteParallel
    \/ \E i \in 1..MaxBranches : BranchStart(i)
    \/ \E i \in 1..MaxBranches : BranchFinish(i)
    \/ ParallelJoin
    \/ ParallelThen
    \/ \E p \in Procs : RunAgentStep(p)
    \/ \E p \in Procs : WaitForStep(p)
    \/ TimerFire
    \/ Tick

SpecPar == InitPar /\ [][NextPar]_vars

\* Injective sequences over 1..Len(Catalogue) of length at most n.
Picks(n) ==
    {q \in SeqsUpTo(1..Len(Catalogue), n) :
        \A i, j \in 1..Len(q) : i # j => q[i] # q[j]}

\* A fresh executor without workflow: up to MaxAgents declared agents.
InitSup ==
    /\ \E q \in Picks(MaxAgents) :
         Config = [Agents |-> [i \in 1..Len(q) |-> Catalogue[q[i]]],
                   Workflow |-> <<>>]
    /\ SharedMemory \in BOOLEAN
    /\ hooks \in Hooks
    /\ InitRest

NextSup ==
    \/ ExecuteSupervisor
    \/ SupervisorReturn
    \/ RunAgentStep(Main)
    \/ NotifierSelect(Main)
    \/ NotifierBody(Main)
    \/ WaitForStep(Main)
    \/ TimerFire
    \/ Tick

SpecSup == InitSup /\ [][NextSup]_vars

\* Agents for the tool round trip: one with a registered tool, one with a
\* toolset only, and one that waits for a key.
ToolCatalogue ==
    <<Agent("a5", "m1", "", <<"calc">>, <<>>, <<"k1">>, <<>>),
      [Agent("a6", "m1", "", <<>>, <<>>, <<"k2">>, <<>>)
          EXCEPT !.Toolsets = <<"web">>],
      Agent("a2", "m1", "", <<>>, <<>>, <<"k2">>, <<"k1">>)>>

\* A fresh executor without workflow and with one declared agent.
InitTool ==
    /\ \E i \in 1..Len(ToolCatalogue) :
         Config = [Agents |-> <<ToolCatalogue[i]>>, Workflow |-> <<>>]
    /\ SharedMemory \in BOOLEAN
    /\ hooks \in Hooks
    /\ InitRest

SpecTool == InitTool /\ [][NextSup]_vars

\* What a run leaves behind: the value Execute returned, the history, the
\* store and the execution state.
Core == [ret |-> ret, History |-> History, data |-> data, State |-> State]

\* A second executor is built by NewExecutor for the same configuration,
\* with the logger, the callback or both left out, and its backends and
\* tools will answer as they answered the finished run.
Rerun ==
    /\ epc = "done"
    /\ replay.mode = "rec"
    /\ replay' = [mode |-> "play", tape |-> replay.tape, first |-> <<Core>>]
    /\ hooks' \in Hooks \ {hooks}
    /\ UNCHANGED <<seen, Config, SharedMemory>>
    /\ State' = NewState(TotalSteps(Config))
    /\ epc' = "idle"
    /\ executes' = 0
    /\ stepIdx' = 0
    /\ firstErr' = Nil
    /\ results' = <<>>
    /\ bpc' = NoBranches
    /\ ret' = <<>>
    /\ History' = <<>>
    /\ ra' = [p \in Procs |-> RaIdle]
    /\ data' = <<>>
    /\ mu' = {}
    /\ condWaiters' = {}
    /\ timers' = EmptyBag
    /\ now' = 0
    /\ wf' = [p \in Procs |-> WfIdle]
    /\ events' = [p \in Procs |-> <<>>]
    /\ memOps' = 0
    /\ snaps' = [p \in Procs |-> <<>>]
    /\ notifier' = [p \in Procs |-> NotifierOff]
    /\ published' = [k \in Keys |-> <<>>]
    /\ stepLog' = <<>>
    /\ failOrder' = <<>>
    /\ seen' = <<>>

\* The workflows that are run twice: steps without repetition over the
\* agents that have a client.
RerunSteps ==
    {q \in SeqsUpTo({"a1", "a2", "a3"}, MaxSteps) :
        \A i, j \in 1..Len(q) : i # j => q[i] # q[j]}

\* A sequential run with logger and callback set, recorded for the rerun.
InitRerun ==
    /\ \E steps \in RerunSteps :
         Config = [Agents |-> Catalogue,
                   Workflow |-> <<[Type |-> "sequential", Steps |-> steps,
                                   Branches |-> <<>>, Then |-> <<>>]>>]
    /\ SharedMemory \in BOOLEAN
    /\ hooks = [callback |-> TRUE, logger |-> TRUE]
    /\ InitCore
    /\ replay = ReplayRec

NextRerun ==
    \/ ExecuteSequential
    \/ SequentialNext
    \/ SequentialReturn
    \/ RunAgentStep(Main)
    \/ WaitForStep(Main)
    \/ TimerFire
    \/ Tick
    \/ Rerun

SpecRerun == InitRerun /\ [][NextRerun]_vars

\* The caller of Execute calls it again on the same executor.
CallAgain ==
    /\ epc = "done"
    /\ executes < MaxExecutes
    /\ epc' = "idle"
    /\ UNCHANGED <<seen, Config, State, executes, stepIdx, firstErr, results, bpc,
                   ret, stepLog, failOrder>>
    /\ UNCHANGED runVars
    /\ UNCHANGED memVars

InitAgain ==
    /\ InitSeq
    /\ hooks = [callback |-> FALSE, logger |-> FALSE]

NextAgain ==
    \/ NextSeq
    \/ CallAgain

SpecAgain == InitAgain /\ [][NextAgain]_vars

\* The workflows Execute is called with once each: none (fallback mode),
\* sequential, parallel, and two with a type the switch does not know.
Wf(type, steps, branches, then) ==
    <<[Type |-> type, Steps |-> steps, Branches |-> branches, Then |-> then]>>

ExecWorkflows ==
    {<<>>}
    \cup {Wf("sequential", s, <<>>, <<>>) :
             s \in {<<>>, <<"a1", "a2">>, <<"a1", "zz">>, <<"a3">>, <<"a4">>}}
    \cup {Wf("parallel", <<>>, <<"a1", "a2">>, <<"a3">>),
          Wf("parallel", <<>>, <<"a1", "a4">>, <<>>),
          Wf("parallel", <<>>, <<"a1">>, <<"zz">>),
          Wf("parallel", <<>>, <<>>, <<>>)}
    \cup {Wf(t, <<"a1">>, <<"a2">>, <<>>) : t \in {"supervisor", "loop"}}

InitExec ==
    /\ \E w \in ExecWorkflows : Config = [Agents |-> Catalogue, Workflow |-> w]
    /\ SharedMemory \in BOOLEAN
    /\ hooks = [callback |-> FALSE, logger |-> FALSE]
    /\ InitRest

NextExec ==
    \/ ExecuteSequential
    \/ SequentialNext
    \/ SequentialReturn
    \/ ExecuteParallel
    \/ \E i \in 1..MaxBranches : BranchStart(i)
    \/ \E i \in 1..MaxBranches : BranchFinish(i)
    \/ ParallelJoin
    \/ ParallelThen
    \/ ExecuteSupervisor
    \/ SupervisorReturn
    \/ ExecuteUnknown
    \/ \E p \in Procs : RunAgentStep(p)
    \/ \E p \in Procs : WaitForStep(p)
    \/ TimerFire
    \/ Tick

SpecExec == InitExec /\ [][NextExec]_vars

\* Everything of the program but the caller's notes of GetState.
Program ==
    <<Config, SharedMemory, State, epc, executes, stepIdx, firstErr, results,
      bpc, ret, History, ra, data, mu, condWaiters, timers, now, wf, hooks,
      events, memOps, snaps, notifier, published, stepLog, failOrder, replay>>

\* The caller reads the execution state through GetState, at any moment
\* of the run; at is the program state the call was made in.
CallGetState ==
    /\ Len(seen) < MaxGetState
    /\ seen' = Append(seen, [state |-> GetState(State), at |-> Program])
    /\ UNCHANGED <<Config, State, epc, executes, stepIdx, firstErr, results,
                   bpc, ret, stepLog, failOrder>>
    /\ UNCHANGED runVars
    /\ UNCHANGED memVars

\* A sequential run of a1 and a2 in either order, or of a3, without logger
\* and callback, observed.
InitState ==
    /\ \E steps \in {<<"a1", "a2">>, <<"a2", "a1">>, <<"a3">>} :
         Config = [Agents |-> Catalogue,
                   Workflow |-> <<[Type |-> "sequential", Steps |-> steps,
                                   Branches |-> <<>>, Then |-> <<>>]>>]
    /\ SharedMemory \in BOOLEAN
    /\ hooks = [callback |-> FALSE, logger |-> FALSE]
    /\ InitRest

NextState ==
    \/ NextSeq
    \/ CallGetState

SpecState == InitState /\ [][NextState]_vars

\* ------------------------------------------------- clients of the store
\* A goroutine calls sm.WaitFor(key, timeout).
MemWaitFor(p) ==
    /\ wf[p].pc = "idle"
    /\ memOps < MaxMemOps
    /\ \E key \in Keys, timeout \in 0..MaxTimeout :
         wf' = [wf EXCEPT ![p] = WaitForCall(key, timeout)]
    /\ memOps' = memOps + 1
    /\ UNCHANGED <<data, published, snaps, mu, condWaiters, timers, now>>
    /\ UNCHANGED <<execVars, runVars>>

\* The caller of WaitFor goes on with what WaitFor returned.
MemReturn(p) ==
    /\ wf[p].pc \in {"returned", "got"}
    /\ wf' = [wf EXCEPT ![p] = WfIdle]
    /\ UNCHANGED <<data, published, snaps, mu, condWaiters, timers, now, memOps>>
    /\ UNCHANGED <<execVars, runVars>>

\* A goroutine calls sm.Set(key, value).
MemSet ==
    /\ memOps < MaxMemOps
    /\ \E key \in Keys, value \in Texts : Set(key, value)
    /\ memOps' = memOps + 1
    /\ UNCHANGED <<execVars, runVars>>

\* A goroutine calls sm.Get(key).
MemGet(p) ==
    /\ memOps < MaxMemOps
    /\ \E key \in Keys : Get(p, key)
    /\ memOps' = memOps + 1
    /\ UNCHANGED <<execVars, runVars>>

\* A goroutine calls sm.Snapshot().
MemSnapshot(p) ==
    /\ Snapshot(p)
    /\ UNCHANGED memOps
    /\ UNCHANGED <<execVars, runVars>>

Remove(f, k) == [x \in (DOMAIN f) \ {k} |-> f[x]]

\* What a caller can do to a map it holds: add or change an entry, or
\* delete one.
Changes(m) ==
    {Put(m, k, v) : k \in Keys, v \in Texts} \cup {Remove(m, k) : k \in DOMAIN m}

\* The caller of Snapshot writes to the map it was given.  Were that map
\* the store's own, the write would land in sm.data.
MemMutate(p) ==
    /\ snaps[p] # <<>>
    /\ memOps < MaxMemOps
    /\ IF snaps[p][1].shared
       THEN /\ data' \in Changes(data)
            /\ UNCHANGED snaps
       ELSE /\ \E m \in Changes(snaps[p][1].m) :
                 snaps' = [snaps EXCEPT ![p] = <<[shared |-> FALSE, m |-> m]>>]
            /\ UNCHANGED data
    /\ memOps' = memOps + 1
    /\ UNCHANGED <<published, mu, condWaiters, timers, now, wf>>
    /\ UNCHANGED <<execVars, runVars>>

InitMem ==
    /\ Config = [Agents |-> <<>>, Workflow |-> <<>>]
    /\ SharedMemory = TRUE
    /\ hooks = [callback |-> FALSE, logger |-> FALSE]
    /\ InitRest

Clients == Procs \ {Main}

NextMem ==
    \/ \E p \in Clients : MemWaitFor(p)
    \/ \E p \in Clients : MemReturn(p)
    \/ MemSet
    \/ \E p \in Clients : MemGet(p)
    \/ \E p \in Clients : WaitForStep(p)
    \/ TimerFire
    \/ Tick

SpecMem == InitMem /\ [][NextMem]_vars

\* A goroutine calls sm.Set(key, value): the call is followed statement by
\* statement, so that Sets of several goroutines overlap.
SetCall(p) ==
    /\ memOps < MaxMemOps
    /\ wf[p].pc = "idle"
    /\ \E key \in Keys, value \in Texts :
          wf' = [wf EXCEPT ![p] =
                    [WfIdle EXCEPT !.pc = "setlock", !.key = key,
                                   !.val = value]]
    /\ memOps' = memOps + 1
    /\ UNCHANGED <<data, published, snaps, mu, condWaiters, timers, now>>
    /\ UNCHANGED <<execVars, runVars>>

\* A Lock that does not wait for the holder.
MuLockBarging(p) == mu' = mu \cup {p}

\* sm.mu.Lock(): granted when nobody holds sm.mu.
MuLock(p) == mu = {} /\ mu' = {p}

\* sm.mu.Lock() of Set.
SetLock(p) ==
    /\ wf[p].pc = "setlock"
    /\ MuLock(p)
    /\ wf' = [wf EXCEPT ![p].pc = "setstore"]
    /\ UNCHANGED <<data, published, snaps, condWaiters, timers, now, memOps>>
    /\ UNCHANGED <<execVars, runVars>>

\* sm.data[key] = value, sm.cond.Broadcast(), the deferred Unlock.
SetStore(p) ==
    /\ wf[p].pc = "setstore"
    /\ data' = SetData(wf[p].key, wf[p].val)
    /\ published' = [published EXCEPT ![wf[p].key] = Append(@, wf[p].val)]
    /\ wf' = [Broadcast(wf) EXCEPT ![p] = WfIdle]
    /\ condWaiters' = {}
    /\ mu' = mu \ {p}
    /\ UNCHANGED <<timers, now, snaps, memOps>>
    /\ UNCHANGED <<execVars, runVars>>

\* Goroutines that call Set, Get and WaitFor on one store concurrently.
NextConc ==
    \/ \E p \in Clients : SetCall(p)
    \/ \E p \in Clients : SetLock(p)
    \/ \E p \in Clients : SetStore(p)
    \/ \E p \in Clients : MemGet(p)
    \/ \E p \in Clients : MemWaitFor(p)
    \/ \E p \in Clients : MemReturn(p)
    \/ \E p \in Clients : WaitForStep(p)
    \/ TimerFire
    \/ Tick

SpecConc == InitMem /\ [][NextConc]_vars

\* The store with clients that publish, take snapshots and write to the
\* maps they were given.
NextSnap ==
    \/ MemSet
    \/ \E p \in Clients : MemSnapshot(p)
    \/ \E p \in Clients : MemMutate(p)

SpecSnap == InitMem /\ [][NextSnap]_vars

\* The store clients under the scheduling Go guarantees: a goroutine that
\* can run does run (callers inside WaitFor, timer goroutines), and time
\* passes.  Whether clients call Set or WaitFor at all is left open.
SpecMemFair ==
    /\ SpecMem
    /\ \A p \in Clients : WF_vars(WaitForStep(p))
    /\ WF_vars(TimerFire)
    /\ WF_vars(Tick)

\* ================================================================ claims
\* The history entry AddOutput(id, text) renders as in GetContext.
Rendered(id, text) == "[" \o id \o "]:\n" \o text \o "\n\n"

Steps == Workflow.Steps
Succeeded == {k \in 1..Len(stepLog) : stepLog[k].err = Nil}
RetErr == ret[1].err
RetOut == ret[1].out

\* C1: in a sequential workflow the prompt handed to the backend for step
\* k > 1 contains, verbatim, the history entry of step k-1's output: both
\* for the steps that have returned and for the step now running.
C1_PromptContainsPreviousOutput ==
    /\ \A k \in 2..Len(stepLog) :
          stepLog[k].gens > 0 =>
             Contains(stepLog[k].prompt,
                      Rendered(stepLog[k - 1].agent, stepLog[k - 1].out))
    /\ (ra[Main].gens > 0 /\ stepLog # <<>>) =>
          Contains(ra[Main].prompt,
                   Rendered(stepLog[Len(stepLog)].agent,
                            stepLog[Len(stepLog)].out))

\* C1 witness: a second step was given its prompt after a first step that
\* produced the tool text as its output.
C1_Witness ==
    /\ Len(stepLog) = 2
    /\ stepLog[2].gens > 0
    /\ stepLog[1].out = ToolText
    /\ stepLog[1].agent # stepLog[2].agent

\* C2: a sequential run stops at the first step that is not found or whose
\* run fails: the steps before it all succeeded and ran in step order, no
\* step after it is run, the state is failed with the error Execute
\* returns; and the step counter equals the number of successful steps.
C2_SequentialFailsFast ==
    /\ State.CurrentStep = Cardinality(Succeeded)
    /\ \A k \in 1..Len(stepLog) :
          /\ stepLog[k].agent = Steps[k]
          /\ k < Len(stepLog) => stepLog[k].err = Nil
    /\ (epc = "done" /\ RetErr # Nil) =>
          /\ State.Status = "failed"
          /\ State.Error = RetErr
          /\ ra[Main].pc = "idle"
          /\ stepIdx <= Len(Steps)
          /\ \/ /\ GetAgent(Steps[stepIdx]) = <<>>
                /\ Len(stepLog) = stepIdx - 1
                /\ RetErr = "agent not found: " \o Steps[stepIdx]
             \/ /\ GetAgent(Steps[stepIdx]) # <<>>
                /\ Len(stepLog) = stepIdx
                /\ stepLog[stepIdx].err = RetErr

\* C2 witness: the first of two steps failed in generation and the run
\* ended there.
C2_Witness ==
    /\ epc = "done"
    /\ Len(Steps) = 2
    /\ Len(stepLog) = 1
    /\ stepLog[1].gens = maxRetries
    /\ RetErr = stepLog[1].err
    /\ RetErr # Nil

\* C3: when every step of a sequential workflow succeeds (and only then)
\* the state is completed and Execute returns the last output of the
\* history, which is the output of the last step's task.
C3_SequentialCompletes ==
    epc = "done" =>
       /\ (Len(stepLog) = Len(Steps) /\ Succeeded = 1..Len(Steps))
             <=> RetErr = Nil
       /\ RetErr = Nil =>
             /\ State.Status = "completed"
             /\ RetOut = GetLastOutput(History)
             /\ RetOut = IF Steps = <<>> THEN ""
                         ELSE stepLog[Len(Steps)].out

\* C3 witness: two steps with different outputs completed.
C3_Witness ==
    /\ epc = "done"
    /\ RetErr = Nil
    /\ Len(stepLog) = 2
    /\ stepLog[1].out # stepLog[2].out
    /\ RetOut = stepLog[2].out

Branches == Workflow.Branches
AllBranchesDone == \A i \in 1..Len(Branches) : bpc[i] = "done"

\* C4: a parallel run joins every branch before it decides: while any
\* branch goroutine is unfinished the state stays running, Execute has
\* not returned and the then agent has not been started, whether or not
\* another branch has already failed; at the return every branch is done.
C4_ParallelJoinsAllBranches ==
    /\ (epc # "idle" /\ ~AllBranchesDone) =>
          /\ State.Status = "running"
          /\ State.Error = Nil
          /\ ret = <<>>
          /\ epc = "par_wait"
          /\ ra[Main].pc = "idle"
    /\ epc \in {"par_then", "done"} =>
          /\ AllBranchesDone
          /\ \A i \in 1..Len(Branches) : ra[i].pc = "idle"

\* C4 witness: one branch has reported its error under the lock while
\* another is still inside its generate call.
C4_Witness ==
    /\ epc = "par_wait"
    /\ firstErr # Nil
    /\ \E i \in 1..Len(Branches) : bpc[i] = "run" /\ ra[i].pc = "gen"
    /\ State.Status = "running"

\* C5: the error a parallel run records and returns is the error of the
\* failing branch that took the results lock first; later failures never
\* replace it, and the state is failed.
C5_FirstErrorWins ==
    /\ firstErr = IF failOrder = <<>> THEN Nil ELSE failOrder[1]
    /\ (epc = "done" /\ failOrder # <<>>) =>
          /\ RetErr = failOrder[1]
          /\ RetOut = ""
          /\ State.Status = "failed"
          /\ State.Error = failOrder[1]

\* C5 witness: two branches failed with different errors.
C5_Witness ==
    /\ epc = "done"
    /\ Len(failOrder) = 2
    /\ failOrder[1] # failOrder[2]
    /\ RetErr = failOrder[1]

\* C6: the then agent is run only when every branch has finished and
\* none failed; after a branch failure it is never run; when it is
\* missing or its run fails the state is failed with that error, else
\* the state is completed.
C6_ThenOnlyAfterAllSucceed ==
    /\ (epc = "par_then" \/ stepLog # <<>> \/ ra[Main].pc # "idle") =>
          /\ AllBranchesDone
          /\ failOrder = <<>>
          /\ Workflow.Then # <<>>
    /\ epc = "done" =>
          IF failOrder # <<>>
          THEN stepLog = <<>> /\ State.Status = "failed"
          ELSE IF Workflow.Then = <<>>
          THEN State.Status = "completed" /\ RetErr = Nil
          ELSE IF \A i \in 1..Len(Config.Agents) :
                     Config.Agents[i].ID # Workflow.Then[1]
          THEN /\ stepLog = <<>>
               /\ State.Status = "failed"
               /\ RetErr = "then agent not found: " \o Workflow.Then[1]
               /\ State.Error = RetErr
          ELSE /\ Len(stepLog) = 1
               /\ stepLog[1].agent = Workflow.Then[1]
               /\ IF stepLog[1].err # Nil
                  THEN /\ State.Status = "failed"
                       /\ State.Error = stepLog[1].err
                       /\ RetErr = stepLog[1].err
                  ELSE /\ State.Status = "completed"
                       /\ RetErr = Nil

\* C6 witness: both branches succeeded and the then agent's run failed.
C6_Witness ==
    /\ epc = "done"
    /\ Len(Branches) = 2
    /\ failOrder = <<>>
    /\ Len(stepLog) = 1
    /\ stepLog[1].err # Nil
    /\ State.Status = "failed"

\* The declared agent with an id (the formula's own lookup).
Declared(id) ==
    Config.Agents[CHOOSE i \in 1..Len(Config.Agents) :
                     /\ Config.Agents[i].ID = id
                     /\ \A j \in 1..(i - 1) : Config.Agents[j].ID # id]

Supervisors == {i \in 1..Len(Config.Agents) : Config.Agents[i].SubAgents # <<>>}
ExpectedRootID ==
    IF Supervisors = {} THEN Config.Agents[1].ID
    ELSE Config.Agents[CHOOSE i \in Supervisors :
                          \A j \in Supervisors : i <= j].ID
OwnEntries == {k \in 1..Len(History) : History[k].AgentID = ExpectedRootID}

\* C8: without a workflow exactly one task is run, once: the first
\* declared supervisor, else the first declared agent; no other agent
\* (a declared sub-agent in particular) is run or adds to the history;
\* with no agent declared the run fails with the no-root error; when the
\* one task succeeds its response is Execute's output and the state is
\* completed, when it fails the state is failed with its error.
C8_FallbackRunsOnlyRoot ==
    /\ Len(stepLog) <= 1
    /\ ra[Main].pc # "idle" =>
          Config.Agents # <<>> /\ ra[Main].agent.ID = ExpectedRootID
    /\ History # <<>> =>
          /\ Cardinality(OwnEntries) <= 1
          /\ \A k \in 1..Len(History) :
                \/ k \in OwnEntries
                \/ \E key \in Keys : History[k].AgentID = "shared:" \o key
    /\ epc = "done" =>
          IF Config.Agents = <<>>
          THEN /\ stepLog = <<>>
               /\ History = <<>>
               /\ RetErr = "no root agent found"
               /\ State.Status = "failed"
               /\ State.Error = RetErr
          ELSE /\ Len(stepLog) = 1
               /\ stepLog[1].agent = ExpectedRootID
               /\ IF stepLog[1].err = Nil
                  THEN /\ State.Status = "completed"
                       /\ RetErr = Nil
                       /\ RetOut = stepLog[1].out
                       /\ Cardinality(OwnEntries) = 1
                  ELSE /\ State.Status = "failed"
                       /\ State.Error = stepLog[1].err
                       /\ RetErr = stepLog[1].err

\* C8 witness: the supervisor is declared second, was the one task run,
\* and the run completed with its response.
C8_Witness ==
    /\ epc = "done"
    /\ Len(Config.Agents) = 2
    /\ Supervisors = {2}
    /\ Len(stepLog) = 1
    /\ stepLog[1].agent = Config.Agents[2].ID
    /\ State.Status = "completed"
    /\ RetOut = stepLog[1].out

\* C9: once the state is completed or failed, no later Start, Complete
\* or Fail (a second Execute on the same executor included) changes the
\* status or the recorded error.
C9_TerminalStateIsFinal ==
    [][State.Status \in {"completed", "failed"} =>
          /\ State'.Status = State.Status
          /\ State'.Error = State.Error]_vars

\* C9 divergence reached: a second Execute has put a failed state back
\* to running, the error of the first run still recorded.
C9_Witness ==
    /\ executes = 2
    /\ State.Status = "running"
    /\ State.Error # Nil

\* C10: a WaitFor call on a key that is in the store when it is called
\* returns that key's value with no error straight from its first loop
\* pass: it never calls cond.Wait and never starts a timer goroutine,
\* whatever its timeout (zero included).
C10_PresentKeyReturnsAtOnce ==
    [][\A p \in Clients :
          (wf[p].present /\ wf[p].pc \in {"lock", "check"}) =>
             /\ wf'[p].pc \in {"lock", "check", "returned"}
             /\ wf'[p].waits = 0
             /\ wf'[p].started = 0
             /\ wf'[p] # wf[p] => timers' = timers
             /\ wf'[p].pc = "returned" =>
                   /\ wf[p].pc = "check"
                   /\ wf'[p].err = Nil
                   /\ wf'[p].val = data[wf[p].key]]_vars

\* C10 witness: a call with timeout zero on a present key has returned
\* the stored value while another caller is suspended on the other key.
C10_Witness ==
    \E p, q \in Clients :
       /\ wf[p].present
       /\ wf[p].pc = "returned"
       /\ wf[p].timeout = 0
       /\ wf[p].err = Nil
       /\ wf[p].val = data[wf[p].key]
       /\ wf[q].pc = "waiting"

\* C11: WaitFor never returns a wrong value: a call that returns without
\* error returns the value its key holds in the store at the moment of the
\* return, whatever Set calls on this key and on other keys went before.
C11_ReturnsCurrentValue ==
    [][\A p \in Clients :
          (wf[p].pc # "returned" /\ wf'[p].pc = "returned"
           /\ wf'[p].err = Nil) =>
             /\ wf[p].key \in DOMAIN data
             /\ data' = data
             /\ wf'[p].key = wf[p].key
             /\ wf'[p].val = data[wf[p].key]]_vars

\* C11 witness: a caller that was suspended has returned the value of its
\* key while the other key holds a different value.
C11_Witness ==
    \E p \in Clients : \E k \in DOMAIN data :
       /\ wf[p].pc = "returned"
       /\ wf[p].err = Nil
       /\ wf[p].waits > 0
       /\ k # wf[p].key
       /\ wf[p].key \in DOMAIN data
       /\ data[k] # data[wf[p].key]
       /\ wf[p].val = data[wf[p].key]

InCall(p) == wf[p].pc \in {"lock", "check", "condwait", "waiting", "woken"}

\* C12: a WaitFor call on a key that is never published eventually
\* returns (with the timeout error), and a timeout error is never
\* returned before the deadline of the call.
C12_TimeoutArrivesNotEarly ==
    /\ [][\A p \in Clients :
            (wf'[p].pc = "returned" /\ wf'[p].err # Nil) =>
               now >= wf'[p].deadline]_vars
    /\ \A p \in Clients :
          InCall(p) ~> (wf[p].pc = "returned" \/ wf[p].key \in DOMAIN data)

\* C12 divergence reached: a caller is suspended in cond.Wait on an absent
\* key, its deadline has passed and no timer goroutine is left to wake it.
C12_Witness ==
    \E p \in Clients :
       /\ wf[p].pc = "waiting"
       /\ wf[p].key \notin DOMAIN data
       /\ now >= wf[p].deadline
       /\ timers = EmptyBag
       /\ \A q \in Clients \ {p} : wf[q].pc = "idle"

\* The half of C12 the code keeps: no timeout error before the deadline.
C12_NoEarlyTimeout ==
    \A p \in Clients :
       (wf[p].pc = "returned" /\ wf[p].err # Nil) =>
          /\ now >= wf[p].deadline
          /\ wf[p].err = "timeout waiting for key '" \o wf[p].key
                          \o "' after " \o ToString(wf[p].timeout)

\* C13: no lost wakeup.  No caller is suspended in cond.Wait, or between
\* its key check and cond.Wait, while its key is in the store; a call
\* whose key is in the store never returns a timeout; and every call in
\* progress on a key that has been set returns that key's value, however
\* many callers wait on the key.
C13_NoLostWakeup ==
    /\ [](\A p \in Clients :
            wf[p].pc \in {"condwait", "waiting"} =>
               wf[p].key \notin DOMAIN data)
    /\ [][\A p \in Clients :
            (InCall(p) /\ wf[p].key \in DOMAIN data
             /\ wf'[p].pc = "returned") => wf'[p].err = Nil]_vars
    /\ \A p \in Clients :
          (InCall(p) /\ wf[p].key \in DOMAIN data)
             ~> (wf[p].pc = "returned" /\ wf[p].err = Nil)

\* C13 witness: two callers were suspended on the same key and both have
\* returned its value after one Set.
C13_Witness ==
    \E p, q \in Clients :
       /\ p # q
       /\ wf[p].pc = "returned" /\ wf[q].pc = "returned"
       /\ wf[p].key = wf[q].key
       /\ wf[p].waits > 0 /\ wf[q].waits > 0
       /\ wf[p].err = Nil /\ wf[q].err = Nil
       /\ wf[p].val = data[wf[p].key] /\ wf[q].val = wf[p].val

\* C14: a stray wake is not an outcome.  A woken caller does nothing but
\* take the lock and check again, and a caller that was woken and finds
\* its key still absent before its deadline neither returns a value nor a
\* timeout: its next step is to start waiting again.
C14_StrayWakeRechecks ==
    [][\A p \in Clients :
          /\ wf[p].pc = "woken" =>
                /\ wf'[p].pc \in {"woken", "check"}
                /\ wf'[p].val = Nil /\ wf'[p].err = Nil
          /\ (wf[p].pc = "check" /\ wf[p].waits > 0
              /\ wf[p].key \notin DOMAIN data /\ now < wf[p].deadline) =>
                /\ wf'[p].pc \in {"check", "condwait"}
                /\ wf'[p].val = Nil /\ wf'[p].err = Nil]_vars

\* C14 witness: a caller is suspended for the second time, its key absent
\* and its deadline ahead, after the other key was published.
C14_Witness ==
    \E p \in Clients :
       /\ wf[p].pc = "waiting"
       /\ wf[p].waits = 2
       /\ wf[p].key \notin DOMAIN data
       /\ now < wf[p].deadline
       /\ data # <<>>

\* C15: WaitFor leaks nothing: once a call has returned, with a value or
\* with a timeout, no timer goroutine started by the call is pending.
C15_NoTimerAfterReturn ==
    \A p \in Clients :
       wf[p].pc \in {"returned", "idle"} =>
          \A t \in BagToSet(timers) : t.owner # p

\* C15 divergence reached: a call has returned its key's value before its
\* deadline and the timer goroutine it started is still asleep.
C15_Witness ==
    \E p \in Clients : \E t \in BagToSet(timers) :
       /\ wf[p].pc = "returned"
       /\ wf[p].err = Nil
       /\ wf[p].started = 1
       /\ t.owner = p
       /\ t.fireAt = wf[p].deadline
       /\ t.fireAt > now

Last(q) == q[Len(q)]

\* C16: a second Set of a key overwrites the first.  The store holds for
\* each key the value of the latest Set; Get returns that value (and
\* reports an unset key as absent); a WaitFor call that returns a value
\* returns the latest one set before its return, never an earlier one.
C16_LatestSetWins ==
    /\ [](\A k \in Keys :
            IF published[k] = <<>> THEN k \notin DOMAIN data
            ELSE k \in DOMAIN data /\ data[k] = Last(published[k]))
    /\ [][\A p \in Clients :
            /\ (wf[p].pc # "got" /\ wf'[p].pc = "got") =>
                  IF published[wf'[p].key] = <<>>
                  THEN ~wf'[p].present /\ wf'[p].val = Nil
                  ELSE /\ wf'[p].present
                       /\ wf'[p].val = Last(published[wf'[p].key])
            /\ (wf[p].pc # "returned" /\ wf'[p].pc = "returned"
                /\ wf'[p].err = Nil) =>
                  /\ published[wf[p].key] # <<>>
                  /\ wf'[p].val = Last(published[wf[p].key])]_vars

\* C16 witness: a caller suspended on a key woke after two Sets of the
\* key with different values and returned the second.
C16_Witness ==
    \E p \in Clients :
       /\ wf[p].pc = "returned"
       /\ wf[p].waits = 1
       /\ Len(published[wf[p].key]) = 2
       /\ published[wf[p].key][1] # published[wf[p].key][2]
       /\ wf[p].val = published[wf[p].key][2]

\* The entries a caller sees in the map Snapshot gave it.
View(p) == IF snaps[p][1].shared THEN data ELSE snaps[p][1].m

\* C17: Snapshot returns a map with exactly the store's entries at the
\* call and leaves the store as it is; afterwards the map and the store
\* are independent: no step changes both, so a write to the map (add,
\* change, delete) leaves the store unchanged and a later Set leaves the
\* map unchanged.
C17_SnapshotIsACopy ==
    [][\A p \in Clients :
          /\ (snaps[p] = <<>> /\ snaps'[p] # <<>>) =>
                /\ data' = data
                /\ View(p)' = data
          /\ (snaps[p] # <<>> /\ snaps'[p] # <<>>) =>
                (data' = data \/ View(p)' = View(p))]_vars

\* C17 witness: a snapshot taken of a store with one entry was changed
\* by its holder and the store was changed by a Set, and the two differ
\* from each other and from what the snapshot held.
C17_Witness ==
    \E p \in Clients : \E k \in Keys :
       /\ snaps[p] # <<>>
       /\ memOps = MaxMemOps
       /\ Len(published[k]) = 2
       /\ k \in DOMAIN snaps[p][1].m
       /\ snaps[p][1].m[k] = published[k][1]
       /\ data[k] = published[k][2]
       /\ data[k] # snaps[p][1].m[k]
       /\ DOMAIN snaps[p][1].m # DOMAIN data

AfterSuccess(r) ==
    \/ r.pc \in {"tools", "append", "append2", "publish", "finish"}
    \/ r.pc = "ret" /\ r.err = Nil

\* C18: the attempt loop of RunAgent calls Generate at most 3 times and
\* stops at the first success: every attempt before the last made failed,
\* failed attempt n < 3 was followed by a wait of n seconds, nothing is
\* waited after attempt 3, and no attempt follows a success.
C18_RetryPolicy ==
    LET r == ra[Main] IN
    /\ r.gens <= 3
    /\ Len(r.sleeps) <= 2
    /\ \A n \in 1..Len(r.sleeps) : r.sleeps[n] = n
    /\ r.pc = "gen" => r.gens = Len(r.sleeps) /\ r.attempt = r.gens + 1
    /\ AfterSuccess(r) =>
          /\ r.gens = Len(r.sleeps) + 1
          /\ r.response \in Texts \cup {TwoToolText}
    /\ (r.pc = "ret" /\ r.err # Nil /\ r.gens > 0) =>
          r.gens = 3 /\ r.sleeps = <<1, 2>>

\* C18 witness: the backend failed twice and then succeeded; RunAgent has
\* returned the text after waits of 1 and 2 seconds.
C18_Witness ==
    /\ ra[Main].pc = "ret"
    /\ ra[Main].err = Nil
    /\ ra[Main].gens = 3
    /\ ra[Main].sleeps = <<1, 2>>
    /\ ra[Main].response = "x"
    /\ ra[Main].follow = 0

AllAttemptsFailed(r) == r.gens = 3 /\ r.lastErr # Nil

SuccessTags == {"TOOL", "OUTPUT", "COMPLETED", "CALLBACK", "SHARED_MEMORY_PUBLISH"}

\* C19: when all 3 Generate attempts of a RunAgent call have failed, the
\* call has returned the error "agent <id> failed after 3 attempts: <e>"
\* with <e> the error of the last attempt, and nothing of the success path
\* happened: no follow-up call, no tool or output event, no History entry,
\* no key published; Execute fails the run with that error.
C19_ExhaustedRetriesAreFatal ==
    LET r == ra[Main] IN
    AllAttemptsFailed(r) =>
        /\ r.pc = "ret"
        /\ r.err = "agent " \o r.agent.ID \o " failed after 3 attempts: "
                       \o r.lastErr
        /\ r.follow = 0
        /\ \A i \in 1..Len(events[Main]) : events[Main][i][1] \notin SuccessTags
        /\ History = <<>>
        /\ \A k \in Keys : published[k] = <<>>
        /\ data = <<>>
        /\ epc = "done" =>
              /\ ret = <<[out |-> "", err |-> r.err]>>
              /\ State.Status = "failed"
              /\ State.Error = r.err

\* C19 witness: three failed attempts, the last one with error e2, of an
\* agent that declares an output key, with the store attached and the
\* logger on; Execute has returned.
C19_Witness ==
    /\ AllAttemptsFailed(ra[Main])
    /\ ra[Main].lastErr = "e2"
    /\ ra[Main].agent.ID = "a1"
    /\ Len(ra[Main].agent.Outputs) > 0
    /\ SharedMemory
    /\ hooks.logger
    /\ epc = "done"
    /\ stepLog # <<>>

\* C20: no "Still generating..." line is printed after the attempt loop of
\* RunAgent has exited, and when RunAgent returns its progress goroutine
\* has terminated.
C20_NotifierStoppedAtLoopExit ==
    /\ notifier[Main].late = 0
    /\ (ra[Main].pc = "ret" /\ notifier[Main].pc # "none") =>
          notifier[Main].pc = "exited"

\* C20 witness: RunAgent and Execute have returned, a progress line was
\* printed after close(done), and the goroutine has not yet exited.
C20_Witness ==
    /\ epc = "done"
    /\ ra[Main].pc = "ret"
    /\ notifier[Main].done
    /\ notifier[Main].late = 1
    /\ notifier[Main].pc = "select"

PastTools(r) ==
    /\ r.phase = "own"
    /\ \/ r.pc \in {"append", "append2", "publish", "finish"}
       \/ r.pc = "ret" /\ r.gens > 0 /\ r.lastErr = Nil

\* C21: a task that declares tools or toolsets and whose response holds
\* at least one tool block makes exactly one follow-up Generate call after
\* the calls were executed, however many blocks there are, and never a
\* second one.
C21_OneFollowupCall ==
    LET r == ra[Main] IN
    /\ r.follow <= 1
    /\ ( /\ PastTools(r)
         /\ Len(r.agent.Tools) > 0 \/ Len(r.agent.Toolsets) > 0
         /\ Len(ParseToolCalls(r.raw)) > 0 ) =>
          /\ r.follow = 1
          /\ Len(r.tres) = Len(ParseToolCalls(r.raw))

\* C21 witness: the agent that declares only a toolset got a response with
\* a tool block and RunAgent returned without any follow-up call.
C21_Witness ==
    /\ ra[Main].pc = "ret"
    /\ ra[Main].err = Nil
    /\ ra[Main].agent.Tools = <<>>
    /\ ra[Main].agent.Toolsets # <<>>
    /\ ra[Main].raw = ToolText
    /\ ra[Main].follow = 0
    /\ ra[Main].tres = <<>>

OwnHistory(id) == SelectSeq(History, LAMBDA h : h.AgentID = id)

C24_RequiredKeyReachesPrompt ==
    LET r == ra[Main] IN
    (Steps = <<"a1", "a2">> /\ r.agent.ID = "a2" /\ r.prompt # "") =>
        /\ Len(stepLog) >= 1
        /\ stepLog[1].agent = "a1"
        /\ stepLog[1].err = Nil
        /\ \E i \in 1..Len(History) :
              History[i] = [AgentID |-> "a1", Response |-> stepLog[1].out]
        /\ "k1" \in DOMAIN data
        /\ data["k1"] = stepLog[1].out
        /\ Contains(r.prompt, "[shared:k1]:\n" \o stepLog[1].out \o "\n\n")

\* C24 witness: the executor has no store; a1 has run and a2's prompt was
\* built without any wait and without a shared:k1 entry.
C24_Witness ==
    /\ Steps = <<"a1", "a2">>
    /\ ~SharedMemory
    /\ ra[Main].agent.ID = "a2"
    /\ ra[Main].prompt # ""
    /\ ~Contains(ra[Main].prompt, "shared:k1")
    /\ data = <<>>
    /\ Len(stepLog) = 1

IsDeclared(id) == id \in {Config.Agents[a].ID : a \in 1..Len(Config.Agents)}

\* Branch i requires a key that another branch of the group declares as
\* output.
AwaitsSibling(i, k) ==
    /\ \E n \in 1..Len(Declared(Branches[i]).Requires) :
          Declared(Branches[i]).Requires[n] = k
    /\ \E j \in (1..Len(Branches)) \ {i} :
          /\ IsDeclared(Branches[j])
          /\ \E n \in 1..Len(Declared(Branches[j]).Outputs) :
                Declared(Branches[j]).Outputs[n] = k

\* C25: in a parallel group a branch that requires a key one of its
\* sibling branches declares as output builds its prompt, and so calls
\* Generate, only after that key has been published.
C25_BranchAwaitsSiblingOutput ==
    \A i \in 1..Len(Branches) : \A k \in Keys :
       ( /\ IsDeclared(Branches[i])
         /\ AwaitsSibling(i, k)
         /\ ra[i].agent.ID = Branches[i]
         /\ ra[i].prompt # "" ) =>
           published[k] # <<>>

\* C25 witness: branches a1 and a2 on an executor without store; a2, which
\* requires a1's key k1, has called Generate before a1 has produced any
\* response.
C25_Witness ==
    /\ Branches = <<"a1", "a2">>
    /\ ~SharedMemory
    /\ ra[2].agent.ID = "a2"
    /\ ra[2].gens > 0
    /\ ra[1].gens = 0
    /\ published["k1"] = <<>>

NoClient(r) == r.agent.ID # "" /\ r.agent.Model # "m1"

\* C26: a RunAgent call for an agent whose model has no client has
\* returned "model not found: <model>" at once: it has awaited no key,
\* built no prompt and made no Generate call, and while it is the current
\* call nothing is added to the history or the store; the run fails with
\* that error.
C26_BackendNotFoundIsImmediate ==
    /\ [](LET r == ra[Main] IN
           NoClient(r) =>
              /\ r.pc = "ret"
              /\ r.err = "model not found: " \o r.agent.Model
              /\ r.req = 0 /\ r.gens = 0 /\ r.follow = 0 /\ r.sleeps = <<>>
              /\ r.prompt = ""
              /\ \A i \in 1..Len(History) : History[i].AgentID # r.agent.ID)
    /\ [](\A n \in 1..Len(stepLog) :
             (IsDeclared(stepLog[n].agent)
                /\ Declared(stepLog[n].agent).Model # "m1") =>
                  /\ stepLog[n].err =
                        "model not found: " \o Declared(stepLog[n].agent).Model
                  /\ stepLog[n].gens = 0
                  /\ stepLog[n].prompt = ""
                  /\ n = Len(stepLog)
                  /\ epc = "done"
                  /\ ret = <<[out |-> "", err |-> stepLog[n].err]>>
                  /\ State.Status = "failed"
                  /\ State.Error = stepLog[n].err)
    /\ [][NoClient(ra'[Main]) =>
             /\ History' = History
             /\ data' = data
             /\ published' = published
             /\ wf'[Main].waits = wf[Main].waits
             /\ wf'[Main].pc = wf[Main].pc]_vars

\* C26 witness: after a1 published k1, the step a4, which requires k1 and
\* declares k2 and a tool but names a model without client, has failed
\* the run.
C26_Witness ==
    /\ Steps = <<"a1", "a4">>
    /\ SharedMemory
    /\ epc = "done"
    /\ Len(stepLog) = 2
    /\ stepLog[2].agent = "a4"
    /\ stepLog[2].err = "model not found: m0"
    /\ "k1" \in DOMAIN data
    /\ "k2" \notin DOMAIN data
    /\ Len(History) = 1
    /\ State.Status = "failed"

EntriesOf(id) == {k \in 1..Len(History) : History[k].AgentID = id}
BranchesOf(id) == {i \in 1..Len(Branches) : Branches[i] = id}

\* C27: when every branch of a parallel group has succeeded, the history
\* holds, for each branch identifier, exactly one entry per branch that
\* ran under it: no concurrent append was lost.
C27_NoAppendLost ==
    (Len(Branches) > 0 /\ AllBranchesDone /\ failOrder = <<>>) =>
        \A i \in 1..Len(Branches) :
           Cardinality(EntriesOf(Branches[i])) =
              Cardinality(BranchesOf(Branches[i]))

\* C27 witness: branches a1 and a2 both succeeded and were joined, and the
\* history holds a2's entry only: a1's append was overwritten.
C27_Witness ==
    /\ Branches = <<"a1", "a2">>
    /\ AllBranchesDone
    /\ failOrder = <<>>
    /\ DOMAIN results = {"a1", "a2"}
    /\ EntriesOf("a1") = {}
    /\ EntriesOf("a2") # {}
    /\ epc = "done"
    /\ State.Status = "completed"

IsPrefix(s, t) == Len(s) <= Len(t) /\ SubSeq(t, 1, Len(s)) = s

\* C28: every step of a run leaves the entries of the history where they
\* are and at most adds entries after them.
C28_HistoryAppendOnly ==
    [][IsPrefix(History, History')]_vars

\* C28 witness: a branch has appended its output and gone on to its
\* COMPLETED lines, and the history no longer holds any entry under its
\* identifier.
C28_Witness ==
    \E p \in 1..MaxBranches :
       /\ bpc[p] = "run"
       /\ ra[p].pc = "finish"
       /\ ra[p].phase = "own"
       /\ History # <<>>
       /\ \A k \in 1..Len(History) : History[k].AgentID # ra[p].agent.ID

\* C29: no step of a run removes a key from the store: the set of keys
\* present only grows, also in the steps that record a failure and after
\* the run has failed.
C29_KeysAreNeverDeleted ==
    [][DOMAIN data \subseteq DOMAIN data']_vars

\* C29 witness: a parallel run has failed after both a1 and a2 published,
\* and both keys are in the store.
C29_Witness ==
    /\ SharedMemory
    /\ epc = "done"
    /\ State.Status = "failed"
    /\ DOMAIN data = {"k1", "k2"}
    /\ published["k1"] # <<>>
    /\ published["k2"] # <<>>

\* C30: a sequential run with logger and callback set and a run of the
\* same workflow with any of them absent, whose backends and tools give
\* the same results, ask for those results in the same order and leave the
\* same return value, history, store contents and execution state.
C30_HooksDoNotChangeTheRun ==
    replay.mode = "play" =>
        /\ ra[Main].pc = "gen" =>
              (replay.tape # <<>> /\ Head(replay.tape).k = "gen")
        /\ ra[Main].pc = "tools" =>
              (replay.tape # <<>> /\ Head(replay.tape).k = "tool")
        /\ epc = "done" =>
              /\ replay.tape = <<>>
              /\ Core = replay.first[1]

\* C30 witness: the rerun without logger and callback of a1, a2 has
\* ended completed like the recorded run, with k1 published, awaited and
\* put into the history, and has logged nothing.
C30_Witness ==
    /\ replay.mode = "play"
    /\ epc = "done"
    /\ hooks = [callback |-> FALSE, logger |-> FALSE]
    /\ SharedMemory
    /\ Steps = <<"a1", "a2">>
    /\ State.Status = "completed"
    /\ Len(stepLog) = 2
    /\ DOMAIN data = {"k1", "k2"}
    /\ events[Main] = <<>>
    /\ Len(History) = 3
    /\ Core = replay.first[1]

Publishers(k) ==
    {Config.Agents[a].ID : a \in {i \in 1..Len(Config.Agents) :
        \E o \in 1..Len(Config.Agents[i].Outputs) :
            Config.Agents[i].Outputs[o] = k}}

\* The values a key was published with so far.
PublishedValues(k) == {published[k][i] : i \in 1..Len(published[k])}

\* C32: a successful RunAgent appends the final output to the history
\* under the task's own id before it publishes any output key: whenever a
\* key is in the store, the history holds an entry of a task that
\* declares the key, with the stored text; and a RunAgent that returns
\* without error has published every declared output key with exactly
\* its final output.
C32_AppendedBeforePublished ==
    /\ \A k \in DOMAIN data :
          \E i \in 1..Len(History) :
             /\ History[i].AgentID \in Publishers(k)
             /\ History[i].Response = data[k]
    /\ \A p \in Procs :
          (SharedMemory /\ ra[p].pc = "ret" /\ ra[p].err = Nil) =>
              \A o \in 1..Len(ra[p].agent.Outputs) :
                 ra[p].response \in PublishedValues(ra[p].agent.Outputs[o])

\* C32 witness: of two a1 branches one has published k1 and returned, and
\* no entry with the text the store holds for k1 is left in the history.
C32_Witness ==
    /\ SharedMemory
    /\ "k1" \in DOMAIN data
    /\ \E p \in Procs : /\ ra[p].pc = "ret"
                          /\ ra[p].err = Nil
                          /\ ra[p].agent.ID = "a1"
                          /\ ra[p].response = data["k1"]
    /\ \A i \in 1..Len(History) : History[i].Response # data["k1"]

\* C33: every Execute call returns, given that each Generate and tool
\* call returns: while a parallel Execute is under way some goroutine of
\* it, a timer or the clock can take a step, so no branch waits for a
\* required key for ever.
C33_ExecuteReturns ==
    epc \notin {"idle", "done"} => ENABLED NextPar

\* C33 witness: a parallel Execute has not returned, one of its branches
\* is suspended in cond.Wait for a key nobody publishes any more, no timer
\* goroutine is left to wake it and no other goroutine can take a step.
C33_Witness ==
    /\ epc \notin {"idle", "done"}
    /\ timers = EmptyBag
    /\ \E p \in condWaiters : /\ wf[p].pc = "waiting"
                                /\ wf[p].key \notin DOMAIN data
                                /\ wf[p].deadline <= now
    /\ \A i \in 1..Len(Branches) : bpc[i] = "done" \/ (i \in condWaiters)

\* The callback invocations of a goroutine, in order.
Callbacks(p) == SelectSeq(events[p], LAMBDA e : e[1] = "CALLBACK")

\* The steps of the sequential run that returned without error.
StepsDone == SelectSeq(stepLog, LAMBDA l : l.err = Nil)

\* C34: the callback, when set, is invoked exactly once for each task that
\* completed, with the task's id, role and final output, after the append
\* to the history and the publication of the outputs, and never for a
\* task whose run returns an error; in a sequential workflow the
\* invocations come in step order.
C34_CallbackOncePerCompletedTask ==
    LET r == ra[Main]
        justDone == r.pc = "ret" /\ r.err = Nil
    IN
    /\ \A k \in 1..Len(StepsDone) : StepsDone[k].agent = Steps[k]
    /\ Callbacks(Main) =
          IF hooks.callback
          THEN [k \in 1..Len(StepsDone) |->
                   <<"CALLBACK", StepsDone[k].agent,
                     Declared(StepsDone[k].agent).Role, StepsDone[k].out>>]
               \o (IF justDone
                   THEN <<(<<"CALLBACK", r.agent.ID,
                             Declared(r.agent.ID).Role, r.response>>)>>
                   ELSE <<>>)
          ELSE <<>>
    /\ justDone =>
          /\ History # <<>>
          /\ History[Len(History)] =
                 [AgentID |-> r.agent.ID, Response |-> r.response]
          /\ SharedMemory =>
                 \A o \in 1..Len(r.agent.Outputs) :
                    /\ r.agent.Outputs[o] \in DOMAIN data
                    /\ data[r.agent.Outputs[o]] = r.response

\* C34 witness: a1 then a2 ran with callback and store; a1 completed and
\* was called back once with its output, which is also the value of k1;
\* a2 returned an error and was not called back.
C34_Witness ==
    /\ hooks.callback
    /\ SharedMemory
    /\ Steps = <<"a1", "a2">>
    /\ epc = "done"
    /\ Len(stepLog) = 2
    /\ stepLog[1].err = Nil
    /\ stepLog[2].err # Nil
    /\ Callbacks(Main) =
          <<(<<"CALLBACK", "a1", "role-a1", stepLog[1].out>>)>>
    /\ data = [k \in {"k1"} |-> stepLog[1].out]

\* The goroutines that hold sm.mu inside Set or WaitFor.
InsideLock == {p \in Clients : wf[p].pc \in {"setstore", "check", "condwait"}}

\* C35: concurrent Set and Get calls are serialized by the store's lock.
\* At most one goroutine is inside a locked section at a time; after any
\* interleaving of Sets each written key is in the store with the value
\* of the Set that took the lock last, and no written key is missing; a
\* Get or a WaitFor return happens while no Set is under way and yields a
\* value some Set stored whole.
C35_SetsAreSerialized ==
    /\ [](/\ Cardinality(InsideLock) <= 1
          /\ InsideLock \subseteq mu
          /\ \A k \in Keys :
                IF published[k] = <<>> THEN k \notin DOMAIN data
                ELSE k \in DOMAIN data /\ data[k] = published[k][Len(published[k])])
    /\ [][\A p \in Clients :
            /\ (wf[p].pc = "setlock" /\ wf'[p].pc = "setstore") =>
                  \A q \in Clients : wf[q].pc # "setstore"
            /\ (wf[p].pc # "got" /\ wf'[p].pc = "got") =>
                  /\ \A q \in Clients : wf[q].pc # "setstore"
                  /\ wf'[p].present = (published[wf'[p].key] # <<>>)
                  /\ wf'[p].present =>
                        wf'[p].val \in PublishedValues(wf'[p].key)
            /\ (wf[p].pc = "check" /\ wf'[p].pc = "returned"
                /\ wf'[p].err = Nil) =>
                  /\ \A q \in Clients : wf[q].pc # "setstore"
                  /\ wf'[p].val \in PublishedValues(wf[p].key)]_vars

\* C35 witness: k1 holds the value of a finished Set while two goroutines
\* are inside Set for k1 with different values, one holding the lock and
\* about to store, the other waiting for the lock.
C35_Witness ==
    /\ Len(published["k1"]) = 1
    /\ data["k1"] = published["k1"][1]
    /\ \E p, q \in Clients :
          /\ wf[p].pc = "setstore"
          /\ wf[q].pc = "setlock"
          /\ wf[p].key = "k1"
          /\ wf[q].key = "k1"
          /\ wf[p].val # wf[q].val
          /\ mu = {p}

\* The shared:<key> entries of the first n required keys of an agent, with
\* the values the store holds.
SharedEntries(a, n) ==
    [i \in 1..n |-> [AgentID |-> "shared:" \o a.Requires[i],
                     Response |-> data[a.Requires[i]]]]

\* C36: a RunAgent call that returns an error (backend not found, required
\* key unavailable, generation failed) appends no history entry under the
\* task's id, publishes none of its keys and invokes no callback: it
\* leaves the store and the callback record as it found them, and the
\* history as it found it followed only by the shared:<key> entries of
\* the required keys resolved before the error.
C36_FailedRunLeavesNoTrace ==
    LET r == ra[Main] IN
    (r.pc = "ret" /\ r.err # Nil) =>
        /\ data = r.entry[1].data
        /\ Callbacks(Main) =
              SelectSeq(r.entry[1].events[Main], LAMBDA e : e[1] = "CALLBACK")
        /\ \E n \in {m \in 0..Len(r.agent.Requires) :
                       \A i \in 1..m : r.agent.Requires[i] \in DOMAIN data} :
              /\ History = r.entry[1].History \o SharedEntries(r.agent, n)
              /\ NoClient(r) => n = 0
              /\ ~SharedMemory => n = 0
              /\ r.gens = 0 => n < Len(r.agent.Requires) \/ NoClient(r)
              /\ r.gens > 0 => (SharedMemory => n = Len(r.agent.Requires))

\* C36 witness: after a1 published k1, a3 received k1, put it into the
\* history as shared:k1, timed out waiting for k2 and returned the error.
C36_Witness ==
    /\ SharedMemory
    /\ Steps = <<"a1", "a3">>
    /\ Len(stepLog) = 1
    /\ ra[Main].pc = "ret"
    /\ ra[Main].err # Nil
    /\ ra[Main].agent.ID = "a3"
    /\ ra[Main].gens = 0
    /\ DOMAIN data = {"k1"}
    /\ Len(History) = 2
    /\ History[1].AgentID = "a1"
    /\ History[2] = [AgentID |-> "shared:k1", Response |-> data["k1"]]

\* The workflow type is one Execute dispatches on.
KnownMode ==
    Config.Workflow = <<>> \/ Workflow.Type \in {"sequential", "parallel"}

\* C37: in sequential, parallel and fallback mode Execute returns an
\* error exactly when the final status is Failed, and then the state's
\* error is the returned one; it returns no error exactly when the final
\* status is Completed.  With an unknown workflow type Execute returns an
\* error while the status stays Pending, the state's error stays unset
\* and no task is run.
C37_ReturnMatchesStatus ==
    /\ (epc = "done" /\ KnownMode) =>
          /\ State.Status \in {"failed", "completed"}
          /\ (RetErr # Nil) = (State.Status = "failed")
          /\ (RetErr = Nil) = (State.Status = "completed")
          /\ State.Error = RetErr
    /\ ~KnownMode =>
          /\ State = [Status |-> "pending", CurrentStep |-> 0,
                      TotalSteps |-> State.TotalSteps, Error |-> Nil]
          /\ History = <<>>
          /\ data = <<>>
          /\ stepLog = <<>>
          /\ \A p \in Procs : ra[p].pc = "idle"
          /\ epc = "done" =>
                /\ RetOut = ""
                /\ RetErr = "unknown workflow type: " \o Workflow.Type

\* C37 witness: Execute has returned the error for a workflow of type
\* supervisor, which the switch does not know.
C37_Witness ==
    /\ epc = "done"
    /\ Config.Workflow # <<>>
    /\ Workflow.Type = "supervisor"
    /\ RetErr = "unknown workflow type: supervisor"
    /\ State.Status = "pending"

\* C38: the step counter is advanced only by successful sequential steps.
\* In a sequential workflow 0 <= CurrentStep <= number of steps <=
\* TotalSteps in every state; in parallel and fallback mode CurrentStep
\* stays 0, also when the run has completed, while TotalSteps counts the
\* branches and the aggregator.
C38_StepCounterBounded ==
    /\ State.CurrentStep >= 0
    /\ (Config.Workflow # <<>> /\ Workflow.Type = "sequential") =>
          /\ State.CurrentStep <= Len(Workflow.Steps)
          /\ Len(Workflow.Steps) <= State.TotalSteps
    /\ (Config.Workflow # <<>> /\ Workflow.Type = "parallel") =>
          /\ State.CurrentStep = 0
          /\ State.TotalSteps = Len(Workflow.Branches) + Len(Workflow.Then)
    /\ Config.Workflow = <<>> =>
          /\ State.CurrentStep = 0
          /\ State.TotalSteps = 0

\* C38 witness: Execute was called twice on the executor of a one-step
\* sequential workflow, both runs completed, and the step counter is 2.
C38_Witness ==
    /\ epc = "done"
    /\ executes = 2
    /\ Len(Workflow.Steps) = 1
    /\ State.Status = "completed"
    /\ State.TotalSteps = 1
    /\ State.CurrentStep = 2

\* A parallel run without aggregator has returned without error.
ParallelDoneNoThen ==
    /\ epc = "done"
    /\ Config.Workflow # <<>>
    /\ Workflow.Type = "parallel"
    /\ Workflow.Then = <<>>
    /\ RetErr = Nil

\* C39: the final output of a successful parallel workflow without
\* aggregator is the text of the history entry appended last, the output
\* of the branch that finished last (the empty text when no branch ran),
\* whatever the order in which the branches are declared; so the same
\* branch outputs can give different final outputs.
C39_LastFinishedBranchWins ==
    ParallelDoneNoThen =>
        /\ State.Status = "completed"
        /\ IF History = <<>>
           THEN RetOut = "" /\ Branches = <<>>
           ELSE /\ RetOut = History[Len(History)].Response
                /\ \E i \in 1..Len(Branches) :
                      /\ History[Len(History)].AgentID = Branches[i]
                      /\ Branches[i] \in DOMAIN results

\* C39 witness: branches a1, a2 answered x and the tool text; a1, the
\* branch declared first, appended last, and Execute returned x and not
\* the output of the branch declared last.
C39_Witness ==
    /\ ParallelDoneNoThen
    /\ Branches = <<"a1", "a2">>
    /\ DOMAIN results = {"a1", "a2"}
    /\ results["a1"] = "x"
    /\ results["a2"] = ToolText
    /\ Len(History) = 2
    /\ History[1].AgentID = "a2"
    /\ History[2].AgentID = "a1"
    /\ RetOut = "x"

\* The same run with the other completion order.
C39_OtherOrder ==
    /\ ParallelDoneNoThen
    /\ Branches = <<"a1", "a2">>
    /\ DOMAIN results = {"a1", "a2"}
    /\ results["a1"] = "x"
    /\ results["a2"] = ToolText
    /\ Len(History) = 2
    /\ History[1].AgentID = "a1"
    /\ History[2].AgentID = "a2"
    /\ RetOut = ToolText

\* A history entry made for a required key.
IsSharedEntry(h) == Len(h.AgentID) >= 7 /\ SubSeq(h.AgentID, 1, 7) = "shared:"

====
